---------------------------- MODULE Spec2Model ----------------------------
(***************************************************************************)
(* Combat engine of regicide-tui (src/src/game.rs, card.rs, enemy.rs).     *)
(* The Game aggregate is one record; every engine operation is an operator *)
(* from a Game (and its inputs) to the Game after the call and the value   *)
(* the call returns.                                                       *)
(***************************************************************************)
EXTENDS Integers, Sequences, FiniteSets, TLC

\* game: the Game aggregate; last: the latest call, its result and the Game
\* before it; defeats: how many times enemy_defeated has run; line, free:
\* where the run stands on WinningLine and how many calls it made away from it;
\* jester_calls: how many times use_jester was called; revealed: the cards of
\* the enemies revealed so far, in order
\* app: the fields of App besides the game (main.rs)
VARIABLES game, last, defeats, line, free, jester_calls, revealed, app

vars == <<game, last, defeats, line, free, jester_calls, revealed, app>>

(***************************************************************************)
(* Bounds of the exploration.                                              *)
(***************************************************************************)
\* calls a run may make away from WinningLine
MaxFree == 1
\* largest number of hand indices offered to play_cards / discard_to_survive
MaxSel == 3
\* number of outcomes of Deck::shuffle that are explored for a heal
MaxShuffle == 2
\* number of initial shuffles of the two decks
MaxDeals == 2
\* calls made on a game set up with Jester cards in the hand
MaxJesterPlays == 3
\* largest discard pile of a game set up for the Ace pairing
MaxDiscard == 6
\* largest hand, and longest selection, offered to validate_play on its own
MaxVHand == 5
MaxVSel == 5

(***************************************************************************)
(* Sequences.                                                              *)
(***************************************************************************)
Min(a, b) == IF a < b THEN a ELSE b

U8(n) == n % 256

SatSub(a, b) == IF a > b THEN a - b ELSE 0

Take(s, n) == SubSeq(s, 1, Min(n, Len(s)))

Drop(s, n) == SubSeq(s, Min(n, Len(s)) + 1, Len(s))

Reverse(s) == [i \in 1..Len(s) |-> s[Len(s) + 1 - i]]

Rotate(s, n) == IF Len(s) = 0 THEN s ELSE Drop(s, n % Len(s)) \o Take(s, n % Len(s))

Range(s) == {s[i] : i \in 1..Len(s)}

RECURSIVE SumSeq(_)
SumSeq(s) == IF s = <<>> THEN 0 ELSE Head(s) + SumSeq(Tail(s))

RECURSIVE SortedSeq(_)
SortedSeq(S) ==
    IF S = {} THEN <<>>
    ELSE LET m == CHOOSE x \in S : \A y \in S : x <= y
         IN <<m>> \o SortedSeq(S \ {m})

(***************************************************************************)
(* card.rs                                                                 *)
(***************************************************************************)
Suit == {"Hearts", "Diamonds", "Clubs", "Spades"}

value(rank) ==
    CASE rank = "Ace" -> 1
      [] rank = "Two" -> 2
      [] rank = "Three" -> 3
      [] rank = "Four" -> 4
      [] rank = "Five" -> 5
      [] rank = "Six" -> 6
      [] rank = "Seven" -> 7
      [] rank = "Eight" -> 8
      [] rank = "Nine" -> 9
      [] rank = "Ten" -> 10
      [] rank = "Jack" -> 10
      [] rank = "Queen" -> 15
      [] rank = "King" -> 20
      [] rank = "Jester" -> 0

Card(suit, rank) == [suit |-> suit, rank |-> rank]

is_companion(c) == c.rank = "Ace"

is_jester(c) == c.rank = "Jester"

Values(cards) == [i \in 1..Len(cards) |-> value(cards[i].rank)]

(***************************************************************************)
(* enemy.rs.  Option<Enemy> is a sequence of length 0 (None) or 1 (Some).  *)
(***************************************************************************)
EnemyNew(card) ==
    LET max_hp == CASE card.rank = "Jack" -> 20
                    [] card.rank = "Queen" -> 30
                    [] card.rank = "King" -> 40
        attack == CASE card.rank = "Jack" -> 10
                    [] card.rank = "Queen" -> 15
                    [] card.rank = "King" -> 20
    IN [card |-> card, max_hp |-> max_hp, current_hp |-> max_hp,
        attack |-> attack, immunity_cancelled |-> FALSE]

\* faulty variant: the cancellation flag is read the wrong way round
is_immune_to_inverted(enemy, card_suit) ==
    enemy.card.suit = card_suit /\ enemy.immunity_cancelled

is_immune_to(enemy, card_suit) ==
    ~enemy.immunity_cancelled /\ enemy.card.suit = card_suit

\* faulty variant: the subtraction wraps instead of saturating
take_damage_wrapping(enemy, damage) ==
    [enemy EXCEPT !.current_hp = U8(enemy.current_hp - damage)]

take_damage(enemy, damage) ==
    [enemy EXCEPT !.current_hp = SatSub(enemy.current_hp, damage)]

is_defeated(enemy) == enemy.current_hp = 0

\* faulty variant: any lethal damage counts as exact
defeated_exactly_ge(enemy, total_damage) == total_damage >= enemy.max_hp

defeated_exactly(enemy, total_damage) == total_damage = enemy.max_hp

cancel_immunity(enemy) == [enemy EXCEPT !.immunity_cancelled = TRUE]

get_attack_after_shields(enemy, shield_value) == SatSub(enemy.attack, shield_value)

(***************************************************************************)
(* Deck and Player (deck.rs, player.rs): front of the sequence is the top. *)
(***************************************************************************)
draw_multiple(cards, n) == [drawn |-> Take(cards, n), cards |-> Drop(cards, n)]

add_to_top(cards, card) == <<card>> \o cards

add_multiple_to_bottom(cards, more) == cards \o more

\* the k-th of the explored outcomes of Deck::shuffle
shuffle(cards, k) ==
    LET r == Rotate(cards, k \div 2)
    IN IF k % 2 = 0 THEN r ELSE Reverse(r)

is_hand_full(player) == Len(player.hand) >= player.max_hand_size

\* Player::play_cards: the cards at the selected positions leave the hand
player_play_cards(player, indices) ==
    LET hand == player.hand
        inr == SelectSeq(indices, LAMBDA i : i < Len(hand))
        keep == SelectSeq([i \in 1..Len(hand) |-> i - 1],
                          LAMBDA i : \A j \in 1..Len(inr) : inr[j] # i)
    IN [player |-> [player EXCEPT !.hand = [j \in 1..Len(keep) |-> hand[keep[j] + 1]]],
        cards |-> [j \in 1..Len(inr) |-> hand[inr[j] + 1]]]

calculate_value(player, indices) ==
    LET inr == SelectSeq(indices, LAMBDA i : i < Len(player.hand))
    IN U8(SumSeq([j \in 1..Len(inr) |-> value(player.hand[inr[j] + 1].rank)]))

can_survive(player, damage) == U8(SumSeq(Values(player.hand))) >= damage

(***************************************************************************)
(* game.rs.  A call returns Result<T, String>: ok, the error text, and the *)
(* value carried by Ok (defeated for play_cards, damage for enemy_attack). *)
(***************************************************************************)
Ok == [ok |-> TRUE, err |-> "", defeated |-> FALSE, damage |-> 0]

OkDefeated(b) == [Ok EXCEPT !.defeated = b]

OkDamage(n) == [Ok EXCEPT !.damage = n]

Err(msg) == [Ok EXCEPT !.ok = FALSE, !.err = msg]

\* what a call that stops early reports besides its result
NoDetail ==
    [cards |-> <<>>, attack_value |-> 0, hearts_power |-> 0, diamonds_power |-> 0,
     clubs_active |-> FALSE, spades_power |-> 0, heal_count |-> 0, drawn |-> 0,
     retroactive_shield |-> 0, dealt |-> 0, total |-> 0, hp_after |-> 0,
     is_defeated |-> FALSE, exact |-> FALSE, validated |-> "", required |-> 0]

\* Game::log: the entry is pushed and the oldest one dropped beyond 100.  Of
\* game_log the model keeps the number of entries and the latest message
\* (without its timestamp and its numbers).
log(g, message) ==
    [g EXCEPT !.game_log = [len |-> IF @.len + 1 > 100 THEN 100 ELSE @.len + 1,
                            last |-> message]]

RECURSIVE log_all(_, _)
log_all(g, messages) ==
    IF messages = <<>> THEN g ELSE log_all(log(g, Head(messages)), Tail(messages))

\* faulty variant: the top card of the castle deck is read but not removed
reveal_next_enemy_peek(g) ==
    IF g.castle_deck # <<>>
    THEN [log(g, "appears")
            EXCEPT !.current_enemy = <<EnemyNew(Head(g.castle_deck))>>,
                   !.shield_value = 0,
                   !.total_damage = 0,
                   !.played_cards = <<>>]
    ELSE log([g EXCEPT !.game_state = "Victory"], "Victory")

\* faulty variant: the castle deck is drawn from its other end
reveal_next_enemy_bottom(g) ==
    IF g.castle_deck # <<>>
    THEN [log(g, "appears")
            EXCEPT !.castle_deck = SubSeq(g.castle_deck, 1, Len(g.castle_deck) - 1),
                   !.current_enemy = <<EnemyNew(g.castle_deck[Len(g.castle_deck)])>>,
                   !.shield_value = 0,
                   !.total_damage = 0,
                   !.played_cards = <<>>]
    ELSE log([g EXCEPT !.game_state = "Victory"], "Victory")

\* faulty variant: the last card of the castle deck is never revealed
reveal_next_enemy_early(g) ==
    IF Len(g.castle_deck) > 1
    THEN [log(g, "appears") EXCEPT !.castle_deck = Tail(g.castle_deck),
                   !.current_enemy = <<EnemyNew(Head(g.castle_deck))>>,
                   !.shield_value = 0,
                   !.total_damage = 0,
                   !.played_cards = <<>>]
    ELSE log([g EXCEPT !.game_state = "Victory"], "Victory")

\* faulty variant: the damage of the last encounter is carried over
reveal_next_enemy_keeps_damage(g) ==
    IF g.castle_deck # <<>>
    THEN [log(g, "appears") EXCEPT !.castle_deck = Tail(g.castle_deck),
                   !.current_enemy = <<EnemyNew(Head(g.castle_deck))>>,
                   !.shield_value = 0,
                   !.played_cards = <<>>]
    ELSE log([g EXCEPT !.game_state = "Victory"], "Victory")

reveal_next_enemy(g) ==
    IF g.castle_deck # <<>>
    THEN [log(g, "appears") EXCEPT !.castle_deck = Tail(g.castle_deck),
                   !.current_enemy = <<EnemyNew(Head(g.castle_deck))>>,
                   !.shield_value = 0,
                   !.total_damage = 0,
                   !.played_cards = <<>>]
    ELSE log([g EXCEPT !.game_state = "Victory"], "Victory")

\* faulty variant: the tavern deck is built with one Jester, which comes on top
new_solo_one_jester(tavern, castle) ==
    LET initial_cards == draw_multiple(<<Card("Hearts", "Jester")>> \o tavern, 8)
    IN log(reveal_next_enemy(
         [castle_deck |-> castle,
          tavern_deck |-> initial_cards.cards,
          discard_pile |-> <<>>,
          current_enemy |-> <<>>,
          player |-> [hand |-> initial_cards.drawn, max_hand_size |-> 8],
          played_cards |-> <<>>,
          shield_value |-> 0,
          total_damage |-> 0,
          game_state |-> "Playing",
          game_log |-> [len |-> 0, last |-> ""],
          jester_count |-> 2,
          jesters_used |-> 0,
          jester_played_this_turn |-> FALSE]), "Game started")

new_solo(tavern, castle) ==
    LET initial_cards == draw_multiple(tavern, 8)
    IN log(reveal_next_enemy(
         [castle_deck |-> castle,
          tavern_deck |-> initial_cards.cards,
          discard_pile |-> <<>>,
          current_enemy |-> <<>>,
          player |-> [hand |-> initial_cards.drawn, max_hand_size |-> 8],
          played_cards |-> <<>>,
          shield_value |-> 0,
          total_damage |-> 0,
          game_state |-> "Playing",
          game_log |-> [len |-> 0, last |-> ""],
          jester_count |-> 2,
          jesters_used |-> 0,
          jester_played_this_turn |-> FALSE]), "Game started")

\* faulty variant: a combo must total less than 10
validate_cards_below_ten(cards) ==
    LET ace_count == Cardinality({j \in 1..Len(cards) : is_companion(cards[j])})
    IN IF \E j \in 1..Len(cards) : is_jester(cards[j])
       THEN IF Len(cards) > 1 THEN "Jester must be played alone" ELSE "Ok"
       ELSE IF Len(cards) = 1 THEN "Ok"
       ELSE IF ace_count > 0 /\ Len(cards) = 2 /\ ace_count = 1 THEN "Ok"
       ELSE IF ace_count > 0 /\ Len(cards) = 2 /\ ace_count = 2 THEN "Ok"
       ELSE IF ace_count > 0 /\ Len(cards) > 2
            THEN "Ace can only be paired with one other card"
       ELSE IF Len(cards) > 4 THEN "Cannot play more than 4 cards at once"
       ELSE IF \E j \in 1..Len(cards) : cards[j].rank # cards[1].rank
            THEN "Combo cards must all have the same rank (or use Ace + 1 card)"
       ELSE IF U8(SumSeq(Values(cards))) >= 10 THEN "Combo total must be 10 or less"
       ELSE "Ok"

\* lines 109-153 of validate_play: the rules on the cards selected
validate_cards(cards) ==
    LET ace_count == Cardinality({j \in 1..Len(cards) : is_companion(cards[j])})
    IN IF \E j \in 1..Len(cards) : is_jester(cards[j])
       THEN IF Len(cards) > 1 THEN "Jester must be played alone" ELSE "Ok"
       ELSE IF Len(cards) = 1 THEN "Ok"
       ELSE IF ace_count > 0 /\ Len(cards) = 2 /\ ace_count = 1 THEN "Ok"
       ELSE IF ace_count > 0 /\ Len(cards) = 2 /\ ace_count = 2 THEN "Ok"
       ELSE IF ace_count > 0 /\ Len(cards) > 2
            THEN "Ace can only be paired with one other card"
       ELSE IF Len(cards) > 4 THEN "Cannot play more than 4 cards at once"
       ELSE IF \E j \in 1..Len(cards) : cards[j].rank # cards[1].rank
            THEN "Combo cards must all have the same rank (or use Ace + 1 card)"
       ELSE IF U8(SumSeq(Values(cards))) > 10 THEN "Combo total must be 10 or less"
       ELSE "Ok"

\* card_indices.iter().filter_map(|&i| hand.get(i))
filter_map_get(hand, card_indices) ==
    LET inr == SelectSeq(card_indices, LAMBDA i : i < Len(hand))
    IN [j \in 1..Len(inr) |-> hand[inr[j] + 1]]

\* faulty variant: positions outside the hand are dropped without an error
validate_play_drop_invalid(hand, card_indices) ==
    LET cards == filter_map_get(hand, card_indices)
    IN IF card_indices = <<>> THEN "Must select at least one card"
       ELSE validate_cards(cards)

validate_play(hand, card_indices) ==
    LET cards == filter_map_get(hand, card_indices)
    IN IF card_indices = <<>> THEN "Must select at least one card"
       ELSE IF Len(cards) # Len(card_indices) THEN "Invalid card indices"
       ELSE validate_cards(cards)

\* faulty variant: a suit's power counts only the cards of that suit
suit_power_own_cards(enemy, cards, attack_value, suit) ==
    IF \E j \in 1..Len(cards) : cards[j].suit = suit /\ ~is_immune_to(enemy, suit)
    THEN U8(SumSeq(Values(SelectSeq(cards, LAMBDA c : c.suit = suit))))
    ELSE 0

\* the power a suit gets from the combo: the whole attack value if a card of
\* the suit was played and the enemy does not block the suit, else 0
suit_power(enemy, cards, attack_value, suit) ==
    IF \E j \in 1..Len(cards) : cards[j].suit = suit /\ ~is_immune_to(enemy, suit)
    THEN attack_value
    ELSE 0

\* one message per played card whose suit the enemy blocks
blocked_messages(enemy, cards) ==
    LET blocked == SelectSeq(cards, LAMBDA c : is_immune_to(enemy, c.suit))
    IN [j \in 1..Len(blocked) |-> "power blocked by immunity"]

\* faulty variant: the healed cards go on top of the tavern deck
heal_to_top(g, hearts_power, k) ==
    LET heal_count == IF hearts_power > 0
                      THEN Min(hearts_power, U8(Len(g.discard_pile))) ELSE 0
        temp_deck == shuffle(g.discard_pile, k)
    IN [g |-> IF heal_count > 0
              THEN log([g EXCEPT !.discard_pile = Drop(temp_deck, heal_count),
                                 !.tavern_deck = Take(temp_deck, heal_count) \o g.tavern_deck],
                       "Healed")
              ELSE g,
        heal_count |-> heal_count]

\* Hearts: heal from the shuffled discard pile into the bottom of the tavern deck
heal(g, hearts_power, k) ==
    LET heal_count == IF hearts_power > 0
                      THEN Min(hearts_power, U8(Len(g.discard_pile))) ELSE 0
        temp_deck == shuffle(g.discard_pile, k)
    IN [g |-> IF heal_count > 0
              THEN log([g EXCEPT !.discard_pile = Drop(temp_deck, heal_count),
                                 !.tavern_deck = add_multiple_to_bottom(
                                                    g.tavern_deck, Take(temp_deck, heal_count))],
                       "Healed")
              ELSE g,
        heal_count |-> heal_count]

\* the Diamonds loop: draw while cards remain to draw, the hand is not full
\* and the tavern deck is not empty
RECURSIVE draw_loop(_, _, _, _)
draw_loop(player, deck, cards_to_draw, drawn) ==
    IF cards_to_draw > 0 /\ ~is_hand_full(player) /\ deck # <<>>
    THEN draw_loop([player EXCEPT !.hand = Append(player.hand, Head(deck))],
                   Tail(deck), cards_to_draw - 1, drawn + 1)
    ELSE [player |-> player, deck |-> deck, drawn |-> drawn]

\* faulty variant: the draw does not stop at a full hand
draw_past_full(g, diamonds_power) ==
    LET dm == draw_multiple(g.tavern_deck, diamonds_power)
        g1 == [g EXCEPT !.player.hand = @ \o dm.drawn, !.tavern_deck = dm.cards]
    IN [g |-> IF Len(dm.drawn) > 0 THEN log(g1, "Drew") ELSE g1,
        drawn |-> Len(dm.drawn)]

\* Diamonds: draw cards
draw(g, diamonds_power) ==
    LET dl == IF diamonds_power > 0
              THEN draw_loop(g.player, g.tavern_deck, diamonds_power, 0)
              ELSE [player |-> g.player, deck |-> g.tavern_deck, drawn |-> 0]
        g1 == [g EXCEPT !.player = dl.player, !.tavern_deck = dl.deck]
    IN [g |-> IF dl.drawn > 0 THEN log(g1, "Drew") ELSE g1,
        drawn |-> dl.drawn]

\* faulty variant: the shield is replaced, not accumulated
shield_replaced(g, spades_power) ==
    IF spades_power > 0
    THEN log([g EXCEPT !.shield_value = spades_power], "Shield increased")
    ELSE g

\* faulty variant: the shield grows by the enemy's attack with every Spades play
shield_by_attack(g, spades_power) ==
    IF spades_power > 0
    THEN log([g EXCEPT !.shield_value = U8(g.shield_value + g.current_enemy[1].attack)],
             "Shield increased")
    ELSE g

\* Spades: the shield is cumulative
shield(g, spades_power) ==
    IF spades_power > 0
    THEN log([g EXCEPT !.shield_value = U8(g.shield_value + spades_power)],
             "Shield increased")
    ELSE g

\* faulty variant: Diamonds draws before Hearts heals
apply_suit_powers_draw_first(g, cards, attack_value, k) ==
    IF g.current_enemy = <<>>
    THEN [g |-> g, res |-> Err("No current enemy"), d |-> NoDetail]
    ELSE
    LET enemy == g.current_enemy[1]
        hearts_power == suit_power(enemy, cards, attack_value, "Hearts")
        diamonds_power == suit_power(enemy, cards, attack_value, "Diamonds")
        clubs_active == suit_power(enemy, cards, attack_value, "Clubs") > 0
        spades_power == suit_power(enemy, cards, attack_value, "Spades")
        drew == draw(log_all(g, blocked_messages(enemy, cards)), diamonds_power)
        healed == heal(drew.g, hearts_power, k)
        g1 == IF clubs_active THEN log(healed.g, "Clubs active") ELSE healed.g
    IN [g |-> shield(g1, spades_power), res |-> Ok,
        d |-> [NoDetail EXCEPT !.hearts_power = hearts_power,
                               !.diamonds_power = diamonds_power,
                               !.clubs_active = clubs_active,
                               !.spades_power = spades_power,
                               !.heal_count = healed.heal_count,
                               !.drawn = drew.drawn]]

apply_suit_powers(g, cards, attack_value, k) ==
    IF g.current_enemy = <<>>
    THEN [g |-> g, res |-> Err("No current enemy"), d |-> NoDetail]
    ELSE
    LET enemy == g.current_enemy[1]
        hearts_power == suit_power(enemy, cards, attack_value, "Hearts")
        diamonds_power == suit_power(enemy, cards, attack_value, "Diamonds")
        clubs_active == suit_power(enemy, cards, attack_value, "Clubs") > 0
        spades_power == suit_power(enemy, cards, attack_value, "Spades")
        healed == heal(log_all(g, blocked_messages(enemy, cards)), hearts_power, k)
        drew == draw(healed.g, diamonds_power)
        g1 == IF clubs_active THEN log(drew.g, "Clubs active") ELSE drew.g
    IN [g |-> shield(g1, spades_power), res |-> Ok,
        d |-> [NoDetail EXCEPT !.hearts_power = hearts_power,
                               !.diamonds_power = diamonds_power,
                               !.clubs_active = clubs_active,
                               !.spades_power = spades_power,
                               !.heal_count = healed.heal_count,
                               !.drawn = drew.drawn]]

\* faulty variant: the next enemy is not revealed
enemy_defeated_no_reveal(g) ==
    LET enemy == g.current_enemy[1]
        g1 == [g EXCEPT !.current_enemy = <<>>]
        g2 == IF defeated_exactly(enemy, g1.total_damage)
              THEN [log(g1, "captured")
                      EXCEPT !.tavern_deck = add_to_top(g1.tavern_deck, enemy.card)]
              ELSE [log(g1, "defeated")
                      EXCEPT !.discard_pile = Append(g1.discard_pile, enemy.card)]
    IN [g2 EXCEPT !.discard_pile = g2.discard_pile \o g2.played_cards,
                  !.played_cards = <<>>]

enemy_defeated(g) ==
    LET enemy == g.current_enemy[1]
        g1 == [g EXCEPT !.current_enemy = <<>>]
        g2 == IF defeated_exactly(enemy, g1.total_damage)
              THEN [log(g1, "captured")
                      EXCEPT !.tavern_deck = add_to_top(g1.tavern_deck, enemy.card)]
              ELSE [log(g1, "defeated")
                      EXCEPT !.discard_pile = Append(g1.discard_pile, enemy.card)]
        g3 == [g2 EXCEPT !.discard_pile = g2.discard_pile \o g2.played_cards,
                         !.played_cards = <<>>]
    IN reveal_next_enemy(g3)

\* faulty variant: Clubs played earlier in the encounter still double
clubs_played_history(g, cards) ==
    \E j \in 1..Len(g.played_cards) :
       g.played_cards[j].suit = "Clubs" /\ ~is_immune_to(g.current_enemy[1], "Clubs")

\* faulty variant: the enemy's immunity to Clubs is not consulted
clubs_played_any(g, cards) ==
    \E j \in 1..Len(cards) : cards[j].suit = "Clubs"

\* whether Clubs doubles the damage of this call
clubs_played(g, cards) ==
    \E j \in 1..Len(cards) :
       cards[j].suit = "Clubs" /\ ~is_immune_to(g.current_enemy[1], "Clubs")

\* faulty variant: an enemy takes no damage from a combo that holds a card of
\* its own suit
deal_damage_blocked(g, attack_value, cards) ==
    IF g.current_enemy = <<>>
    THEN [g |-> g, res |-> Err("No current enemy"), d |-> NoDetail]
    ELSE
    LET enemy == g.current_enemy[1]
        doubled == IF clubs_played(g, cards) THEN U8(attack_value * 2) ELSE attack_value
        attack == IF \E j \in 1..Len(cards) : is_immune_to(enemy, cards[j].suit)
                  THEN 0 ELSE doubled
        total == U8(g.total_damage + attack)
        hurt == take_damage(enemy, attack)
        g1 == log([g EXCEPT !.total_damage = total, !.current_enemy = <<hurt>>], "Dealt")
    IN [g |-> IF is_defeated(hurt) THEN enemy_defeated(g1) ELSE g1,
        res |-> Ok,
        d |-> [NoDetail EXCEPT !.dealt = attack, !.total = total,
                               !.hp_after = hurt.current_hp,
                               !.is_defeated = is_defeated(hurt),
                               !.exact = is_defeated(hurt) /\ defeated_exactly(enemy, total)]]

deal_damage(g, attack_value, cards) ==
    IF g.current_enemy = <<>>
    THEN [g |-> g, res |-> Err("No current enemy"), d |-> NoDetail]
    ELSE
    LET enemy == g.current_enemy[1]
        attack == IF clubs_played(g, cards) THEN U8(attack_value * 2) ELSE attack_value
        total == U8(g.total_damage + attack)
        hurt == take_damage(enemy, attack)
        g1 == log([g EXCEPT !.total_damage = total, !.current_enemy = <<hurt>>], "Dealt")
    IN [g |-> IF is_defeated(hurt) THEN enemy_defeated(g1) ELSE g1,
        res |-> Ok,
        d |-> [NoDetail EXCEPT !.dealt = attack, !.total = total,
                               !.hp_after = hurt.current_hp,
                               !.is_defeated = is_defeated(hurt),
                               !.exact = is_defeated(hurt) /\ defeated_exactly(enemy, total)]]

\* Option<Card> of the current enemy
enemy_card(g) == IF g.current_enemy = <<>> THEN <<>> ELSE <<g.current_enemy[1].card>>

\* faulty variant: the Jester also doubles, after the fact, the Clubs cards
\* that a Clubs enemy had blocked
play_jester_clubs_too(g1, cards, played) ==
    LET clubs == U8(SumSeq(Values(SelectSeq(g1.played_cards, LAMBDA c : c.suit = "Clubs"))))
        back == g1.current_enemy # <<>> /\ g1.current_enemy[1].card.suit = "Clubs"
        gl == log(g1, "Played Jester")
        gc == IF back
              THEN [gl EXCEPT !.current_enemy =
                                 <<cancel_immunity(take_damage(g1.current_enemy[1], clubs))>>,
                              !.total_damage = U8(@ + clubs)]
              ELSE IF g1.current_enemy # <<>>
              THEN [gl EXCEPT !.current_enemy = <<cancel_immunity(g1.current_enemy[1])>>]
              ELSE gl
    IN [g |-> [gc EXCEPT !.discard_pile = gc.discard_pile \o cards,
                         !.jester_played_this_turn = TRUE],
        res |-> OkDefeated(FALSE),
        d |-> played]

\* the Jester branch of play_cards
play_jester(g1, cards, played) ==
    LET enemy_suit == g1.current_enemy[1].card.suit
        retroactive_shield ==
            U8(SumSeq(Values(SelectSeq(g1.played_cards, LAMBDA c : c.suit = "Spades"))))
        back == g1.current_enemy # <<>> /\ enemy_suit = "Spades" /\ retroactive_shield > 0
        gl == log(g1, "Played Jester")
        gc == IF g1.current_enemy # <<>>
              THEN [gl EXCEPT !.current_enemy = <<cancel_immunity(g1.current_enemy[1])>>,
                              !.shield_value = IF back THEN U8(@ + retroactive_shield) ELSE @]
              ELSE gl
        g2 == IF back THEN log(gc, "Spades now active") ELSE gc
    IN [g |-> [g2 EXCEPT !.discard_pile = g2.discard_pile \o cards,
                         !.jester_played_this_turn = TRUE],
        res |-> OkDefeated(FALSE),
        d |-> [played EXCEPT !.retroactive_shield = IF back THEN retroactive_shield ELSE 0]]

\* play_cards once validate_play has accepted the selection
play_validated(g0, card_indices, k) ==
    LET pp == player_play_cards(g0.player, card_indices)
        cards == pp.cards
        g1 == [g0 EXCEPT !.player = pp.player]
        attack_value == U8(SumSeq(Values(cards)))
        base == [NoDetail EXCEPT !.validated = "Ok"]
        played == [base EXCEPT !.cards = cards, !.attack_value = attack_value]
        enemy_before == enemy_card(g1)
        asp == apply_suit_powers(log(g1, "Played"), cards, attack_value, k)
        g3 == [asp.g EXCEPT !.played_cards = asp.g.played_cards \o cards]
        dd == deal_damage(g3, attack_value, cards)
        powers == [played EXCEPT !.hearts_power = asp.d.hearts_power,
                                 !.diamonds_power = asp.d.diamonds_power,
                                 !.clubs_active = asp.d.clubs_active,
                                 !.spades_power = asp.d.spades_power,
                                 !.heal_count = asp.d.heal_count,
                                 !.drawn = asp.d.drawn]
    IN IF cards = <<>> THEN [g |-> g1, res |-> Err("Failed to play cards"), d |-> base]
       ELSE IF is_jester(cards[1]) THEN play_jester(g1, cards, played)
       ELSE IF ~asp.res.ok THEN [g |-> asp.g, res |-> asp.res, d |-> played]
       ELSE IF ~dd.res.ok THEN [g |-> dd.g, res |-> dd.res, d |-> powers]
       ELSE [g |-> dd.g,
             res |-> OkDefeated(enemy_before # enemy_card(dd.g)),
             d |-> [powers EXCEPT !.dealt = dd.d.dealt, !.total = dd.d.total,
                                  !.hp_after = dd.d.hp_after,
                                  !.is_defeated = dd.d.is_defeated,
                                  !.exact = dd.d.exact]]

\* faulty variant: the cards leave the hand before the selection is validated
play_cards_remove_first(g, card_indices, k) ==
    LET g0 == [g EXCEPT !.jester_played_this_turn = FALSE]
        validated == validate_play(g0.player.hand, card_indices)
        pp == player_play_cards(g0.player, card_indices)
    IN IF validated # "Ok"
       THEN [g |-> [g0 EXCEPT !.player = pp.player], res |-> Err(validated),
             d |-> [NoDetail EXCEPT !.validated = validated]]
       ELSE play_validated(g0, card_indices, k)

\* faulty variant: the Jester flag is reset only once the selection is accepted
play_cards_reset_late(g, card_indices, k) ==
    LET validated == validate_play(g.player.hand, card_indices)
    IN IF validated # "Ok"
       THEN [g |-> g, res |-> Err(validated),
             d |-> [NoDetail EXCEPT !.validated = validated]]
       ELSE play_validated([g EXCEPT !.jester_played_this_turn = FALSE], card_indices, k)

play_cards(g, card_indices, k) ==
    LET g0 == [g EXCEPT !.jester_played_this_turn = FALSE]
        validated == validate_play(g0.player.hand, card_indices)
    IN IF validated # "Ok"
       THEN [g |-> g0, res |-> Err(validated),
             d |-> [NoDetail EXCEPT !.validated = validated]]
       ELSE play_validated(g0, card_indices, k)

\* faulty variant: the Jester flag survives the yield
yield_turn_keeps_flag(g) ==
    [g |-> log(g, "Yielded turn"), res |-> Ok, d |-> NoDetail]

yield_turn(g) ==
    [g |-> log([g EXCEPT !.jester_played_this_turn = FALSE], "Yielded turn"),
     res |-> Ok, d |-> NoDetail]

\* faulty variant: the shield is not taken off the attack
enemy_attack_unshielded(g) ==
    IF g.current_enemy = <<>>
    THEN [g |-> g, res |-> Err("No current enemy"), d |-> NoDetail]
    ELSE LET damage == g.current_enemy[1].attack
         IN [g |-> IF damage > 0 THEN log(g, "Enemy attacks")
                   ELSE log(g, "Enemy attack fully blocked by shields"),
             res |-> OkDamage(damage),
             d |-> NoDetail]

enemy_attack(g) ==
    IF g.current_enemy = <<>>
    THEN [g |-> g, res |-> Err("No current enemy"), d |-> NoDetail]
    ELSE LET damage == get_attack_after_shields(g.current_enemy[1], g.shield_value)
         IN [g |-> IF damage > 0 THEN log(g, "Enemy attacks")
                   ELSE log(g, "Enemy attack fully blocked by shields"),
             res |-> OkDamage(damage),
             d |-> NoDetail]

\* faulty variant: the shield is not taken off the attack
discard_to_survive_unshielded(g, card_indices) ==
    LET val == calculate_value(g.player, card_indices)
        required == g.current_enemy[1].attack
        pp == player_play_cards(g.player, card_indices)
    IN IF g.current_enemy = <<>>
       THEN [g |-> g, res |-> Err("No current enemy"), d |-> NoDetail]
       ELSE IF val < required
       THEN [g |-> g, res |-> Err("Not enough value"),
             d |-> [NoDetail EXCEPT !.required = required, !.attack_value = val]]
       ELSE [g |-> [log(g, "Discarded") EXCEPT !.player = pp.player,
                             !.discard_pile = g.discard_pile \o pp.cards],
             res |-> Ok,
             d |-> [NoDetail EXCEPT !.required = required, !.attack_value = val,
                                    !.cards = pp.cards]]

discard_to_survive(g, card_indices) ==
    LET val == calculate_value(g.player, card_indices)
        required == get_attack_after_shields(g.current_enemy[1], g.shield_value)
        pp == player_play_cards(g.player, card_indices)
    IN IF g.current_enemy = <<>>
       THEN [g |-> g, res |-> Err("No current enemy"), d |-> NoDetail]
       ELSE IF val < required
       THEN [g |-> g, res |-> Err("Not enough value"),
             d |-> [NoDetail EXCEPT !.required = required, !.attack_value = val]]
       ELSE [g |-> [log(g, "Discarded") EXCEPT !.player = pp.player,
                             !.discard_pile = g.discard_pile \o pp.cards],
             res |-> Ok,
             d |-> [NoDetail EXCEPT !.required = required, !.attack_value = val,
                                    !.cards = pp.cards]]

\* faulty variant: the discarded hand goes under the tavern deck before the draw
use_jester_recycles(g) ==
    IF g.jesters_used >= g.jester_count
    THEN [g |-> g, res |-> Err("No Jesters remaining"), d |-> NoDetail]
    ELSE LET dm == draw_multiple(add_multiple_to_bottom(g.tavern_deck, g.player.hand), 8)
         IN [g |-> [log(g, "Used Jester power")
                        EXCEPT !.player.hand = dm.drawn,
                               !.tavern_deck = dm.cards,
                               !.jesters_used = U8(g.jesters_used + 1)],
             res |-> Ok,
             d |-> [NoDetail EXCEPT !.cards = g.player.hand]]

\* faulty variant: the limit is tested one call late
use_jester_late(g) ==
    IF g.jesters_used > g.jester_count
    THEN [g |-> g, res |-> Err("No Jesters remaining"), d |-> NoDetail]
    ELSE LET dm == draw_multiple(g.tavern_deck, 8)
         IN [g |-> [log(g, "Used Jester power")
                        EXCEPT !.discard_pile = g.discard_pile \o g.player.hand,
                               !.player.hand = dm.drawn,
                               !.tavern_deck = dm.cards,
                               !.jesters_used = U8(g.jesters_used + 1)],
             res |-> Ok,
             d |-> [NoDetail EXCEPT !.cards = g.player.hand]]

\* faulty variant: the 8 cards are drawn on top of the hand, which is kept
use_jester_keeps_hand(g) ==
    IF g.jesters_used >= g.jester_count
    THEN [g |-> g, res |-> Err("No Jesters remaining"), d |-> NoDetail]
    ELSE LET dm == draw_multiple(g.tavern_deck, 8)
         IN [g |-> [log(g, "Used Jester power")
                        EXCEPT !.player.hand = @ \o dm.drawn,
                             !.tavern_deck = dm.cards,
                             !.jesters_used = U8(g.jesters_used + 1)],
             res |-> Ok,
             d |-> [NoDetail EXCEPT !.cards = <<>>]]

use_jester(g) ==
    IF g.jesters_used >= g.jester_count
    THEN [g |-> g, res |-> Err("No Jesters remaining"), d |-> NoDetail]
    ELSE LET dm == draw_multiple(g.tavern_deck, 8)
         IN [g |-> [log(g, "Used Jester power")
                        EXCEPT !.discard_pile = g.discard_pile \o g.player.hand,
                             !.player.hand = dm.drawn,
                             !.tavern_deck = dm.cards,
                             !.jesters_used = U8(g.jesters_used + 1)],
             res |-> Ok,
             d |-> [NoDetail EXCEPT !.cards = g.player.hand]]

\* The counterattack of the application after a play that did not defeat the
\* enemy and after a yield (App::play_selected_cards, App::yield_turn): the
\* enemy attacks, and if the hand cannot pay the damage the application
\* writes Defeat into game_state.  It is the only writer of Defeat.
counterattack(g) ==
    LET r == enemy_attack(g)
    IN IF r.res.ok /\ r.res.damage > 0 /\ ~can_survive(r.g.player, r.res.damage)
       THEN [r EXCEPT !.g.game_state = "Defeat"]
       ELSE r

(***************************************************************************)
(* main.rs: the application.  App owns the game; of its other fields the   *)
(* model keeps them all, required_damage being 0 outside DiscardPhase, and *)
(* running tells whether run_app has not returned yet.                     *)
(***************************************************************************)
AppNew ==
    [state |-> "Playing", required_damage |-> 0, selected_cards |-> <<>>,
     show_help |-> FALSE, log_scroll_offset |-> 0, guide_scroll_offset |-> 0,
     help_scroll_offset |-> 0, running |-> TRUE]

\* ui.rs
get_game_guide_line_count == 64

get_help_line_count == 177

\* AppState without and with its field
Enter(a, state) == [a EXCEPT !.state = state, !.required_damage = 0]

DiscardPhase(a, damage) == [a EXCEPT !.state = "DiscardPhase", !.required_damage = damage]

scroll_log_up(a, g) ==
    [a EXCEPT !.log_scroll_offset = IF @ < g.game_log.len THEN @ + 1 ELSE @]

scroll_log_down(a) == [a EXCEPT !.log_scroll_offset = IF @ > 0 THEN @ - 1 ELSE @]

reset_log_scroll(a) == [a EXCEPT !.log_scroll_offset = 0]

scroll_guide_up(a) == [a EXCEPT !.guide_scroll_offset = IF @ > 0 THEN @ - 1 ELSE @]

scroll_guide_down(a, max_lines) ==
    [a EXCEPT !.guide_scroll_offset = IF @ < SatSub(max_lines, 10) THEN @ + 1 ELSE @]

scroll_help_up(a) == [a EXCEPT !.help_scroll_offset = IF @ > 0 THEN @ - 1 ELSE @]

scroll_help_down(a, max_lines) ==
    [a EXCEPT !.help_scroll_offset = IF @ < SatSub(max_lines, 10) THEN @ + 1 ELSE @]

\* What a handler did: the call it made on the game ("" if none) with its
\* result, and the result of enemy_attack if it went on to call it.
Handled(a, g, call, res, d, attack) ==
    [app |-> a, g |-> g, call |-> call, res |-> res, d |-> d, attack |-> attack]

Idle(a, g) == Handled(a, g, "", Ok, NoDetail, <<>>)

\* new is the game Game::new_solo deals
restart_game(a, new) ==
    Handled([a EXCEPT !.selected_cards = <<>>, !.state = "Playing", !.required_damage = 0,
                      !.log_scroll_offset = 0, !.guide_scroll_offset = 0,
                      !.help_scroll_offset = 0],
            new, "new_solo", Ok, NoDetail, <<>>)

toggle_card_selection(a, g, index) ==
    IF index >= Len(g.player.hand) THEN a
    ELSE IF \E i \in 1..Len(a.selected_cards) : a.selected_cards[i] = index
    THEN [a EXCEPT !.selected_cards = SelectSeq(@, LAMBDA i : i # index)]
    ELSE [a EXCEPT !.selected_cards = Append(@, index)]

\* faulty variant: the discard phase follows every attack that does damage
after_attack_always_discard(a, r, call, res, d) ==
    IF ~r.res.ok THEN Handled(a, r.g, call, res, d, <<r.res>>)
    ELSE IF r.res.damage > 0
    THEN Handled(DiscardPhase(reset_log_scroll(a), r.res.damage), r.g, call, res, d, <<r.res>>)
    ELSE Handled(reset_log_scroll(a), r.g, call, res, d, <<r.res>>)

\* the end of App::play_selected_cards and App::yield_turn once enemy_attack
\* has returned r (r.g already holds the Defeat that the application writes
\* when the hand cannot pay): Defeat, or the discard phase
after_attack(a, r, call, res, d) ==
    IF ~r.res.ok THEN Handled(a, r.g, call, res, d, <<r.res>>)
    ELSE IF r.res.damage > 0
    THEN IF ~can_survive(r.g.player, r.res.damage)
         THEN Handled(Enter(reset_log_scroll(a), "Defeat"), r.g, call, res, d, <<r.res>>)
         ELSE Handled(DiscardPhase(reset_log_scroll(a), r.res.damage), r.g, call, res, d,
                      <<r.res>>)
    ELSE Handled(reset_log_scroll(a), r.g, call, res, d, <<r.res>>)

\* App::play_selected_cards once play_cards has returned r
after_play(a, sorted, r) ==
    IF ~r.res.ok
    THEN Handled(reset_log_scroll([a EXCEPT !.selected_cards = sorted]),
                 log(r.g, "Error"), "play_cards", r.res, r.d, <<>>)
    ELSE IF r.g.game_state \in {"Victory", "Defeat"}
    THEN Handled(Enter(reset_log_scroll([a EXCEPT !.selected_cards = <<>>]), r.g.game_state),
                 r.g, "play_cards", r.res, r.d, <<>>)
    ELSE IF ~r.res.defeated /\ ~r.g.jester_played_this_turn
    THEN after_attack(reset_log_scroll([a EXCEPT !.selected_cards = <<>>]),
                      counterattack(r.g), "play_cards", r.res, r.d)
    ELSE Handled(reset_log_scroll([a EXCEPT !.selected_cards = <<>>]),
                 r.g, "play_cards", r.res, r.d, <<>>)

play_selected_cards(a, g, k) ==
    IF a.selected_cards = <<>>
    THEN Idle(reset_log_scroll(a), log(g, "No cards selected"))
    ELSE after_play(a, SortedSeq(Range(a.selected_cards)),
                    play_cards(g, SortedSeq(Range(a.selected_cards)), k))

\* App::yield_turn once yield_turn has returned r
after_yield(a, r) ==
    IF r.res.ok
    THEN after_attack(reset_log_scroll(a), counterattack(r.g), "yield_turn", r.res, r.d)
    ELSE Handled(a, r.g, "yield_turn", r.res, r.d, <<>>)

\* App::yield_turn
app_yield_turn(a, g) == after_yield(a, yield_turn(g))

\* App::discard_selected_cards once discard_to_survive has returned r
after_discard(a, sorted, r) ==
    IF r.res.ok
    THEN Handled(Enter(reset_log_scroll([a EXCEPT !.selected_cards = <<>>]), "Playing"),
                 log(r.g, "Survived enemy attack"),
                 "discard_to_survive", r.res, r.d, <<>>)
    ELSE Handled(reset_log_scroll([a EXCEPT !.selected_cards = sorted]),
                 log(r.g, "Error"), "discard_to_survive", r.res, r.d, <<>>)

discard_selected_cards(a, g) ==
    IF a.selected_cards = <<>>
    THEN Idle(reset_log_scroll(a), log(g, "No cards selected to discard"))
    ELSE after_discard(a, SortedSeq(Range(a.selected_cards)),
                       discard_to_survive(g, SortedSeq(Range(a.selected_cards))))

\* App::use_jester once use_jester has returned r
after_jester(a, r) ==
    Handled(reset_log_scroll(a), IF r.res.ok THEN r.g ELSE log(r.g, "Error"),
            "use_jester", r.res, r.d, <<>>)

\* App::use_jester
app_use_jester(a, g) == after_jester(a, use_jester(g))

\* the keys of the keyboard that run_app tells apart
Digits == {"0", "1", "2", "3", "4", "5", "6", "7", "8", "9"}

DigitOf(key) == CHOOSE n \in 0..9 : ToString(n) = key

\* the digit keys of Playing and DiscardPhase
digit_key(a, g, key) ==
    LET digit == DigitOf(key)
    IN IF digit >= 1 /\ digit <= 8 THEN toggle_card_selection(a, g, digit - 1) ELSE a

\* One turn of the loop of run_app on a key press: the global keys, then the
\* keys of the state the application is in.  k is the outcome of the shuffle
\* of a heal, new the game a restart deals.
run_app(a, g, key, k, new) ==
    CASE key = "q" -> Idle(Enter(a, "QuitConfirmation"), g)
      [] key = "h" ->
            Idle([a EXCEPT !.show_help = ~@,
                           !.help_scroll_offset = IF a.show_help THEN 0 ELSE @], g)
      [] key = "Up" -> Idle(IF a.show_help THEN scroll_help_up(a) ELSE scroll_log_up(a, g), g)
      [] key = "Down" ->
            Idle(IF a.show_help THEN scroll_help_down(a, get_help_line_count)
                 ELSE scroll_log_down(a), g)
      [] key = "Left" -> Idle(IF a.show_help THEN a ELSE scroll_guide_up(a), g)
      [] key = "Right" ->
            Idle(IF a.show_help THEN a
                 ELSE scroll_guide_down(a, get_game_guide_line_count), g)
      [] OTHER ->
            IF a.show_help THEN Idle(a, g)
            ELSE CASE a.state = "Playing" ->
                         (CASE key \in Digits -> Idle(digit_key(a, g, key), g)
                            [] key = "Enter" -> play_selected_cards(a, g, k)
                            [] key = " " -> app_yield_turn(a, g)
                            [] key = "j" -> app_use_jester(a, g)
                            [] key = "r" -> Idle(Enter(a, "RestartConfirmation"), g)
                            [] OTHER -> Idle(a, g))
                   [] a.state = "DiscardPhase" ->
                         (CASE key \in Digits -> Idle(digit_key(a, g, key), g)
                            [] key = "Enter" -> discard_selected_cards(a, g)
                            [] key = "j" -> app_use_jester(a, g)
                            [] key = "r" -> Idle(Enter(a, "RestartConfirmation"), g)
                            [] OTHER -> Idle(a, g))
                   [] a.state \in {"Victory", "Defeat"} ->
                         IF key = "r" THEN restart_game(a, new) ELSE Idle(a, g)
                   [] a.state = "RestartConfirmation" ->
                         (CASE key \in {"y", "Y"} -> restart_game(a, new)
                            [] key \in {"n", "N", "Esc"} -> Idle(Enter(a, "Playing"), g)
                            [] OTHER -> Idle(a, g))
                   [] a.state = "QuitConfirmation" ->
                         (CASE key \in {"y", "Y"} -> Idle([a EXCEPT !.running = FALSE], g)
                            [] key \in {"n", "N", "Esc"} -> Idle(Enter(a, "Playing"), g)
                            [] OTHER -> Idle(a, g))

(***************************************************************************)
(* The games explored.  Deck::create_tavern_deck(0) and                    *)
(* Deck::create_castle_deck shuffle; deal 1 is the shuffle below, the      *)
(* other deals cut the tavern deck and turn the suits of each castle layer.*)
(***************************************************************************)
Call(op, sel, k) == [op |-> op, sel |-> sel, k |-> k]

TavernOrder ==
    <<Card("Clubs", "Six"), Card("Hearts", "Five"), Card("Clubs", "Two"), Card("Hearts", "Three"),
      Card("Diamonds", "Eight"), Card("Diamonds", "Two"), Card("Diamonds", "Five"), Card("Clubs", "Seven"),
      Card("Diamonds", "Ace"), Card("Spades", "Nine"), Card("Clubs", "Eight"), Card("Hearts", "Six"),
      Card("Clubs", "Ten"), Card("Spades", "Five"), Card("Diamonds", "Nine"), Card("Spades", "Eight"),
      Card("Spades", "Seven"), Card("Clubs", "Five"), Card("Spades", "Three"), Card("Hearts", "Eight"),
      Card("Clubs", "Three"), Card("Diamonds", "Seven"), Card("Diamonds", "Four"), Card("Hearts", "Nine"),
      Card("Diamonds", "Six"), Card("Hearts", "Ten"), Card("Spades", "Two"), Card("Clubs", "Ace"),
      Card("Spades", "Six"), Card("Diamonds", "Three"), Card("Hearts", "Two"), Card("Hearts", "Four"),
      Card("Clubs", "Four"), Card("Spades", "Four"), Card("Spades", "Ace"), Card("Spades", "Ten"),
      Card("Hearts", "Seven"), Card("Diamonds", "Ten"), Card("Clubs", "Nine"), Card("Hearts", "Ace")>>

CastleOrder ==
    <<Card("Diamonds", "Jack"), Card("Clubs", "Jack"), Card("Hearts", "Jack"), Card("Spades", "Jack"),
      Card("Hearts", "Queen"), Card("Clubs", "Queen"), Card("Diamonds", "Queen"), Card("Spades", "Queen"),
      Card("Clubs", "King"), Card("Spades", "King"), Card("Hearts", "King"), Card("Diamonds", "King")>>

\* one line of play that wins the game dealt by deal 1
WinningLine ==
    <<Call("play_cards", <<7>>, 0),
      Call("play_cards", <<0>>, 0),
      Call("play_cards", <<3>>, 0),
      Call("play_cards", <<5, 6>>, 0),
      Call("play_cards", <<1, 3>>, 0),
      Call("play_cards", <<5>>, 0),
      Call("play_cards", <<2, 5>>, 0),
      Call("play_cards", <<2>>, 0),
      Call("play_cards", <<3>>, 0),
      Call("use_jester", <<>>, 0),
      Call("play_cards", <<6>>, 0),
      Call("play_cards", <<3>>, 0),
      Call("play_cards", <<2>>, 0),
      Call("play_cards", <<1, 7>>, 0),
      Call("play_cards", <<2, 4>>, 0),
      Call("use_jester", <<>>, 0),
      Call("play_cards", <<4, 6>>, 0),
      Call("play_cards", <<3>>, 0),
      Call("play_cards", <<3>>, 0),
      Call("play_cards", <<5>>, 0),
      Call("play_cards", <<3>>, 0),
      Call("play_cards", <<5>>, 0),
      Call("play_cards", <<4>>, 0),
      Call("play_cards", <<5, 6>>, 0),
      Call("play_cards", <<1, 4>>, 0),
      Call("play_cards", <<6>>, 0),
      Call("play_cards", <<2>>, 0),
      Call("play_cards", <<3, 4>>, 0),
      Call("play_cards", <<4>>, 0),
      Call("play_cards", <<6>>, 0),
      Call("play_cards", <<3>>, 0),
      Call("play_cards", <<1>>, 0),
      Call("play_cards", <<0>>, 0)>>


Tavern(deal) == Rotate(TavernOrder, 7 * (deal - 1))

Castle(deal) ==
    [i \in 1..12 |-> CastleOrder[4 * ((i - 1) \div 4) + ((i - 1 + deal - 1) % 4) + 1]]

\* the selections a caller passes: hand positions in ascending order, one
\* position past the end of the hand included
SelectionsOf(n) ==
    {SortedSeq(S) : S \in {T \in SUBSET (0..n) : Cardinality(T) <= MaxSel}}

SelectionTable == [n \in 0..8 |-> SelectionsOf(n)]

Selections(g) ==
    LET n == Len(g.player.hand)
    IN IF n \in DOMAIN SelectionTable THEN SelectionTable[n] ELSE SelectionsOf(n)

\* Deck::shuffle runs only when a Hearts card is played: only then is there
\* an outcome to choose
Shuffles(g, sel) ==
    IF \E i \in 1..Len(sel) :
          sel[i] < Len(g.player.hand) /\ g.player.hand[sel[i] + 1].suit = "Hearts"
    THEN 0..(MaxShuffle - 1)
    ELSE {0}

\* The shield the plays of this encounter would have raised against an enemy
\* that blocks nothing: apply_suit_powers adds the combo's attack value for
\* every combo that holds a Spades card.
UnblockedShield(op, r) ==
    IF r.d.is_defeated THEN 0
    ELSE IF op = "play_cards" /\ r.res.ok /\ game.current_enemy # <<>>
    THEN last.unblocked_shield
            + suit_power(cancel_immunity(game.current_enemy[1]), r.d.cards,
                         IF is_jester(r.d.cards[1]) THEN 0 ELSE r.d.attack_value, "Spades")
    ELSE last.unblocked_shield

\* the successful plays, Jester plays apart, made against the current enemy
EncounterPlays(op, r) ==
    IF r.d.is_defeated THEN 0
    ELSE IF op = "play_cards" /\ r.res.ok /\ ~is_jester(r.d.cards[1]) THEN last.plays + 1
    ELSE last.plays

Record(op, r) ==
    [op |-> op, res |-> r.res, d |-> r.d, pre |-> game,
     unblocked_shield |-> UnblockedShield(op, r),
     plays_before |-> last.plays, plays |-> EncounterPlays(op, r)]

Commit(op, r) ==
    /\ app' = app
    /\ game' = r.g
    /\ last' = Record(op, r)
    /\ defeats' = IF r.d.is_defeated THEN defeats + 1 ELSE defeats
    /\ jester_calls' = IF op = "use_jester" THEN jester_calls + 1 ELSE jester_calls
    /\ revealed' = IF r.d.is_defeated /\ r.g.current_enemy # <<>>
                   THEN Append(revealed, r.g.current_enemy[1].card)
                   ELSE revealed

\* a call is the next call of WinningLine, or one of the MaxFree calls away from it
OnLine(c) ==
    /\ line >= 0 /\ line < Len(WinningLine) /\ WinningLine[line + 1] = c
    /\ line' = line + 1
    /\ free' = free

OffLine ==
    /\ free < MaxFree
    /\ line' = -1
    /\ free' = free + 1

\* a line of play that leaves WinningLine two calls before its end: the
\* player throws cards away, the next play leaves a hand that cannot pay the
\* enemy's attack, and the last play defeats the twelfth enemy all the same
DefeatLine ==
    <<Call("discard_to_survive", <<0, 1, 4>>, 0),
      Call("play_cards", <<1>>, 0),
      Call("play_cards", <<0>>, 0)>>

\* positions past the end of WinningLine count the calls of DefeatLine made
OnDefeatLine(c) ==
    LET made == IF line = Len(WinningLine) - 2 THEN 0 ELSE line - Len(WinningLine)
    IN /\ line = Len(WinningLine) - 2 \/ line > Len(WinningLine)
       /\ made < Len(DefeatLine) /\ DefeatLine[made + 1] = c
       /\ line' = Len(WinningLine) + made + 1
       /\ free' = free

Permitted(c) == OnLine(c) \/ OnDefeatLine(c) \/ OffLine

Init ==
    \E deal \in 1..MaxDeals :
       /\ game = new_solo(Tavern(deal), Castle(deal))
       /\ last = [op |-> "new_solo", res |-> Ok, d |-> NoDetail, pre |-> game,
                  unblocked_shield |-> 0, plays_before |-> 0, plays |-> 0]
       /\ defeats = 0
       /\ line = IF deal = 1 THEN 0 ELSE -1
       /\ free = 0
       /\ jester_calls = 0
       /\ revealed = <<game.current_enemy[1].card>>
       /\ app = AppNew

PlayCards ==
    \E sel \in Selections(game) : \E k \in Shuffles(game, sel) :
       /\ Permitted(Call("play_cards", sel, k))
       /\ LET r == play_cards(game, sel, k)
          IN Commit("play_cards", r)

YieldTurn ==
    /\ Permitted(Call("yield_turn", <<>>, 0))
    /\ LET r == yield_turn(game)
       IN Commit("yield_turn", r)

EnemyAttack ==
    /\ Permitted(Call("enemy_attack", <<>>, 0))
    /\ LET r == enemy_attack(game)
       IN Commit("enemy_attack", r)

DiscardToSurvive ==
    \E sel \in Selections(game) :
       /\ Permitted(Call("discard_to_survive", sel, 0))
       /\ LET r == discard_to_survive(game, sel)
          IN Commit("discard_to_survive", r)

UseJester ==
    /\ Permitted(Call("use_jester", <<>>, 0))
    /\ LET r == use_jester(game)
       IN Commit("use_jester", r)

\* the application's counterattack, in the case that ends the game: it
\* follows a successful play that left the enemy standing (and was not a
\* Jester) or a yield, in a game that is Playing
CannotSurvive ==
    /\ last.op \in {"play_cards", "yield_turn"} /\ last.res.ok
    /\ last.op = "play_cards" => ~last.res.defeated /\ ~game.jester_played_this_turn
    /\ game.game_state = "Playing"
    /\ LET r == counterattack(game)
       IN /\ r.g.game_state = "Defeat"
          /\ Commit("counterattack", r)
    /\ UNCHANGED <<line, free>>

Next ==
    PlayCards \/ YieldTurn \/ EnemyAttack \/ DiscardToSurvive \/ UseJester \/ CannotSurvive

Spec == Init /\ [][Next]_vars

(***************************************************************************)
(* validate_play on its own: hands cut from VCards, and selections that    *)
(* may repeat a position, name a position past the hand, or be unsorted.   *)
(***************************************************************************)
VCards ==
    <<Card("Hearts", "Two"), Card("Diamonds", "Two"), Card("Clubs", "Two"),
      Card("Spades", "Two"), Card("Hearts", "Ace"), Card("Diamonds", "Ace"),
      Card("Clubs", "Ace"), Card("Clubs", "Three"), Card("Spades", "Three"),
      Card("Hearts", "Three"), Card("Hearts", "Five"), Card("Diamonds", "Five"),
      Card("Clubs", "Six"), Card("Spades", "Six"), Card("Hearts", "Jester"),
      Card("Hearts", "Ten")>>

\* the non-decreasing sequences over 0..n of length at most len
RECURSIVE NonDecreasing(_, _, _)
NonDecreasing(lo, n, len) ==
    IF len = 0 THEN {<<>>}
    ELSE {<<>>} \cup UNION {{<<i>> \o t : t \in NonDecreasing(i, n, len - 1)} : i \in lo..n}

VSelectionsOf(n) ==
    LET up == NonDecreasing(0, n, MaxVSel)
    IN up \cup {Reverse(t) : t \in up}

VSelectionTable == [n \in 0..MaxVHand |-> VSelectionsOf(n)]

InitV ==
    \E r \in 0..(Len(VCards) - 1), n \in 0..MaxVHand :
       /\ game = [new_solo(Tavern(1), Castle(1))
                    EXCEPT !.player.hand = Take(Rotate(VCards, r), n),
                           !.tavern_deck = Drop(Rotate(VCards, r), n)]
       /\ last = [op |-> "new_solo", res |-> Ok, d |-> NoDetail, pre |-> game, sel |-> <<>>]
       /\ defeats = 0
       /\ line = -1
       /\ free = 0
       /\ jester_calls = 0
       /\ revealed = <<game.current_enemy[1].card>>
       /\ app = AppNew

\* one validate_play call on the hand dealt
ValidatePlay ==
    /\ last.op = "new_solo"
    /\ \E sel \in VSelectionTable[Len(game.player.hand)] :
       /\ last' = [op |-> "validate_play",
                   res |-> LET v == validate_play(game.player.hand, sel)
                           IN IF v = "Ok" THEN Ok ELSE Err(v),
                   d |-> NoDetail, pre |-> game, sel |-> sel]
       /\ UNCHANGED <<game, defeats, line, free, jester_calls, revealed, app>>

NextV == ValidatePlay

SpecV == InitV /\ [][NextV]_vars

(***************************************************************************)
(* Games with Jester cards.  new_solo deals none (create_tavern_deck(0)),  *)
(* so the Jester branch of play_cards is entered the way the tests of      *)
(* game.rs enter it: on a new game whose hand and current enemy are set.   *)
(***************************************************************************)
JesterCard == Card("Hearts", "Jester")

JesterHands ==
    {<<Card("Spades", "Five"), JesterCard, JesterCard, Card("Spades", "Three")>>,
     <<Card("Clubs", "Five"), JesterCard, Card("Hearts", "Two")>>,
     <<Card("Diamonds", "Ace"), Card("Spades", "Four"), JesterCard>>,
     <<JesterCard, Card("Clubs", "Ten"), Card("Clubs", "Six")>>}

JesterEnemies ==
    {Card("Spades", "Jack"), Card("Clubs", "Jack"), Card("Hearts", "Queen")}

JesterTavern == <<Card("Diamonds", "Four"), Card("Clubs", "Two")>>

InitJ ==
    \E hand \in JesterHands, enemy \in JesterEnemies :
       /\ game = [new_solo(Tavern(1), Castle(1))
                    EXCEPT !.current_enemy = <<EnemyNew(enemy)>>,
                           !.player.hand = hand,
                           !.tavern_deck = JesterTavern]
       /\ last = [op |-> "new_solo", res |-> Ok, d |-> NoDetail, pre |-> game,
                  unblocked_shield |-> 0, plays_before |-> 0, plays |-> 0]
       /\ defeats = 0
       /\ line = -1
       /\ free = MaxFree - MaxJesterPlays
       /\ jester_calls = 0
       /\ revealed = <<enemy>>
       /\ app = AppNew

SpecJ == InitJ /\ [][Next]_vars

(***************************************************************************)
(* Games set up like test_hearts_power and test_diamonds_power: a new game *)
(* whose enemy, hand and discard pile are set.  The hand holds the Ace of  *)
(* Hearts and the 5 of Diamonds; the discard pile holds up to MaxDiscard   *)
(* of the other cards of the hand first dealt; the cards of the hand are   *)
(* taken out of the tavern deck.                                           *)
(***************************************************************************)
PowerHands ==
    {<<Card("Hearts", "Ace"), Card("Diamonds", "Five")>>,
     <<Card("Spades", "Two"), Card("Hearts", "Ace"), Card("Diamonds", "Five"),
       Card("Clubs", "Nine")>>}

PowerEnemies ==
    {Card("Spades", "Jack"), Card("Hearts", "Jack"), Card("Diamonds", "Queen")}

InitP ==
    \E hand \in PowerHands, enemy \in PowerEnemies, n \in 0..MaxDiscard :
       LET new == new_solo(Tavern(1), Castle(1))
           dealt == SelectSeq(new.player.hand, LAMBDA c : c \notin Range(hand))
       IN /\ game = [new EXCEPT !.current_enemy = <<EnemyNew(enemy)>>,
                                !.player.hand = hand,
                                !.discard_pile = Take(dealt, Min(n, Len(dealt))),
                                !.tavern_deck = SelectSeq(@, LAMBDA c : c \notin Range(hand))]
          /\ last = [op |-> "new_solo", res |-> Ok, d |-> NoDetail, pre |-> game,
                  unblocked_shield |-> 0, plays_before |-> 0, plays |-> 0]
          /\ defeats = 0
          /\ line = -1
          /\ free = 0
          /\ jester_calls = 0
          /\ revealed = <<enemy>>
          /\ app = AppNew

SpecP == InitP /\ [][Next]_vars

(***************************************************************************)
(* A session of the application: App::new() deals deal 1; the keys pressed *)
(* are those of KeyLine, or up to MaxFree keys away from it; a restart     *)
(* deals any of the deals.                                                 *)
(***************************************************************************)
\* A shuffle that a restart may deal: tens and Clubs first, then three Aces,
\* the four Twos and a Three, which lie on top of the tavern deck once the
\* four Jacks are defeated.
LowTavernOrder ==
    <<Card("Clubs", "Ten"), Card("Clubs", "Five"), Card("Diamonds", "Five"), Card("Clubs", "Nine"),
      Card("Clubs", "Eight"), Card("Diamonds", "Ten"), Card("Spades", "Ten"), Card("Clubs", "Six"),
      Card("Spades", "Ace"), Card("Hearts", "Nine"), Card("Diamonds", "Nine"), Card("Hearts", "Eight"),
      Card("Diamonds", "Eight"), Card("Clubs", "Ace"), Card("Diamonds", "Ace"), Card("Hearts", "Ace"),
      Card("Clubs", "Two"), Card("Diamonds", "Two"), Card("Hearts", "Two"), Card("Spades", "Two"),
      Card("Clubs", "Three"), Card("Hearts", "Three"), Card("Diamonds", "Three"), Card("Spades", "Three"),
      Card("Hearts", "Four"), Card("Diamonds", "Four"), Card("Clubs", "Four"), Card("Spades", "Four"),
      Card("Hearts", "Five"), Card("Spades", "Five"), Card("Hearts", "Six"), Card("Diamonds", "Six"),
      Card("Spades", "Six"), Card("Hearts", "Seven"), Card("Diamonds", "Seven"), Card("Clubs", "Seven"),
      Card("Spades", "Seven"), Card("Spades", "Eight"), Card("Spades", "Nine"), Card("Hearts", "Ten")>>

\* the games the application deals: deal 0 is that shuffle
AppTavern(deal) == IF deal = 0 THEN LowTavernOrder ELSE Tavern(deal)

AppCastle(deal) == IF deal = 0 THEN Castle(3) ELSE Castle(deal)

\* One session: the help screen and the scrolling keys, a restart cancelled
\* and a restart confirmed, then, on deal 1, a play answered by the enemy, the
\* discard, a play that defeats the enemy, yields and discards down to a hand
\* that cannot pay, and, the quit confirmation cancelled, two more plays and
\* a restart.
KeyLine ==
    <<"h", "Down", "Up", "h", "Right", "Left", "Up", "Down", "r", "Esc", "r", "y",
      "8", "Enter", "5", "6", "Enter", "1", "Enter", " ", "1", "4", "Enter",
      "1", " ", "q", "n", "Enter", "q", "n", "1", "Enter", "r">>

OnKeyLine(key, k) ==
    /\ line >= 0 /\ line < Len(KeyLine) /\ KeyLine[line + 1] = key /\ k = 0
    /\ line' = line + 1
    /\ free' = free

\* Sessions that leave KeyLine after its first `at` keys:
\*   the restarted game, on deal 2, opens with the 9 of Spades and the Ace of
\*   Diamonds, whose shield takes the whole attack of the Jack;
\*   the first discard phase is left through the quit confirmation, and the
\*   player yields and plays with the damage unpaid;
\*   the lost game, its quit confirmation cancelled, takes the Jester power,
\*   a yield and a discard;
\*   the restarted game, on deal 0, is played up to the first Queen, and the
\*   Jester power is taken in the discard phase.
KeyDetours ==
    <<[at |-> 12, keys |-> <<"2", "3", "Enter", " ">>],
      [at |-> 12, keys |-> <<"1", "Enter", "1", "2", "Enter",
                             "1", "Enter", "5", "Enter", "1", "Enter",
                             "1", "Enter", "5", "Enter", "1", "3", "Enter",
                             "1", "Enter", "j", "j">>],
      [at |-> 14, keys |-> <<"q", "n", " ", "r", "n", "1", "Enter">>],
      [at |-> 27, keys |-> <<"j", " ", "1", "2", "3", "Enter">>]>>

\* line = DetourBase * i + j once j keys of detour i have been pressed
DetourBase == Len(KeyLine) + 1

OnKeyDetour(key, k) ==
    \E i \in 1..Len(KeyDetours) :
       LET made == IF line = KeyDetours[i].at THEN 0 ELSE line - DetourBase * i
       IN /\ line = KeyDetours[i].at
             \/ (line > DetourBase * i /\ line < DetourBase * i + Len(KeyDetours[i].keys))
          /\ KeyDetours[i].keys[made + 1] = key /\ k = 0
          /\ line' = DetourBase * i + made + 1
          /\ free' = free

\* whether, after the handler, the enemy's answer to a play or a yield is
\* still to come: a successful yield, or play that neither defeated the
\* enemy nor was a Jester, not followed by a successful enemy_attack
Owed(r) ==
    IF r.call \in {"play_cards", "yield_turn"} /\ r.res.ok
    THEN /\ r.call = "play_cards" => ~r.res.defeated /\ ~is_jester(r.d.cards[1])
         /\ r.attack = <<>> \/ ~r.attack[1].ok
    ELSE IF r.call = "new_solo" THEN FALSE
    ELSE last.owed

\* whether, after the handler, the damage of a counterattack is unpaid: the
\* application has entered the discard phase and no discard_to_survive has
\* succeeded since
Unpaid(r) ==
    IF r.call = "new_solo" THEN FALSE
    ELSE IF r.attack # <<>> /\ r.app.state = "DiscardPhase" THEN TRUE
    ELSE IF r.call = "discard_to_survive" /\ r.res.ok THEN FALSE
    ELSE last.unpaid

\* the state after run_app has handled a key and returned r
Pressed(key, r) ==
    /\ app' = r.app
    /\ game' = r.g
    /\ last' = [op |-> r.call, res |-> r.res, d |-> r.d,
                pre |-> IF r.call = "new_solo" THEN r.g ELSE game,
                key |-> key, app_pre |-> app, attack |-> r.attack,
                owed_before |-> last.owed, owed |-> Owed(r),
                unpaid_before |-> last.unpaid, unpaid |-> Unpaid(r)]
    /\ defeats' = IF r.call = "new_solo" THEN 0
                  ELSE IF r.d.is_defeated THEN defeats + 1 ELSE defeats
    /\ jester_calls' = IF r.call = "new_solo" THEN 0
                       ELSE IF r.call = "use_jester" THEN jester_calls + 1
                       ELSE jester_calls
    /\ revealed' = IF r.call = "new_solo" THEN <<r.g.current_enemy[1].card>>
                   ELSE IF r.d.is_defeated /\ r.g.current_enemy # <<>>
                   THEN Append(revealed, r.g.current_enemy[1].card)
                   ELSE revealed

\* a key is pressed and run_app handles it
Press(key, k, deal) ==
    /\ app.running
    /\ OnKeyLine(key, k) \/ OnKeyDetour(key, k) \/ OffLine
    /\ Pressed(key, run_app(app, game, key, k, new_solo(AppTavern(deal), AppCastle(deal))))

InitApp ==
    /\ game = new_solo(Tavern(1), Castle(1))
    /\ app = AppNew
    /\ last = [op |-> "new_solo", res |-> Ok, d |-> NoDetail, pre |-> game,
               key |-> "", app_pre |-> app, attack |-> <<>>,
               owed_before |-> FALSE, owed |-> FALSE,
               unpaid_before |-> FALSE, unpaid |-> FALSE]
    /\ defeats = 0
    /\ line = 0
    /\ free = 0
    /\ jester_calls = 0
    /\ revealed = <<game.current_enemy[1].card>>

KeyQuit == Press("q", 0, 1)

KeyHelp == Press("h", 0, 1)

KeyScroll == \E key \in {"Up", "Down", "Left", "Right"} : Press(key, 0, 1)

KeyDigit == \E key \in Digits : Press(key, 0, 1)

KeyEnter ==
    \E k \in Shuffles(game, SortedSeq(Range(app.selected_cards))) : Press("Enter", k, 1)

KeySpace == Press(" ", 0, 1)

KeyJester == Press("j", 0, 1)

KeyRestart == \E deal \in 0..MaxDeals : Press("r", 0, deal)

KeyYes == \E key \in {"y", "Y"}, deal \in 0..MaxDeals : Press(key, 0, deal)

KeyNo == \E key \in {"n", "N", "Esc"} : Press(key, 0, 1)

\* any other key
KeyOther == Press("x", 0, 1)

NextApp ==
    \/ KeyQuit \/ KeyHelp \/ KeyScroll \/ KeyDigit \/ KeyEnter \/ KeySpace
    \/ KeyJester \/ KeyRestart \/ KeyYes \/ KeyNo \/ KeyOther

SpecApp == InitApp /\ [][NextApp]_vars

(***************************************************************************)
(* Properties.  last holds the latest call: last.pre is the Game before    *)
(* it, game the Game after it, last.d what the call computed on the way.   *)
(***************************************************************************)
Max(a, b) == IF a > b THEN a ELSE b

Played == last.op = "play_cards" /\ last.res.ok

\* a successful play of cards other than a lone Jester, against a present enemy
Attacked ==
    /\ Played
    /\ ~is_jester(last.d.cards[1])
    /\ last.pre.current_enemy # <<>>

EnemyBefore == last.pre.current_enemy[1]

ComboSum == SumSeq(Values(last.d.cards))

ComboHas(suit) == \E i \in 1..Len(last.d.cards) : last.d.cards[i].suit = suit

ImmuneBefore(suit) == EnemyBefore.card.suit = suit /\ ~EnemyBefore.immunity_cancelled

\* the played cards are the cards that left the hand
CardsLeftHand ==
    /\ Range(last.d.cards) \subseteq Range(last.pre.player.hand)
    /\ Range(last.d.cards) \cap Range(game.player.hand) = {}

\* C1: a successful non-Jester play against a present enemy deals the sum of
\* the played cards' rank values, or twice that sum when the combo holds a
\* Clubs card and the enemy is not immune to Clubs; that amount is added to
\* total_damage and subtracted, saturating at 0, from the enemy's current_hp
\* before the defeat is handled.
C1_DamageDealt ==
    Attacked =>
       LET expected == IF ComboHas("Clubs") /\ ~ImmuneBefore("Clubs")
                       THEN 2 * ComboSum ELSE ComboSum
       IN /\ CardsLeftHand
          /\ last.d.attack_value = ComboSum
          /\ last.d.dealt = expected
          /\ last.d.total = last.pre.total_damage + expected
          /\ last.d.hp_after = Max(0, EnemyBefore.current_hp - expected)
          /\ ~last.d.is_defeated =>
                /\ game.total_damage = last.d.total
                /\ game.current_enemy[1].current_hp = last.d.hp_after

\* a combo of several cards, one of them Clubs, doubled against a non-Clubs enemy
C1_Witness ==
    /\ Attacked
    /\ Len(last.d.cards) >= 2
    /\ ComboHas("Clubs") /\ ~ImmuneBefore("Clubs")
    /\ \E i \in 1..Len(last.d.cards) : last.d.cards[i].suit # "Clubs"
    /\ last.d.dealt = 2 * ComboSum
    /\ ~last.d.is_defeated

Defeating == Attacked /\ last.d.is_defeated

\* C2: when a play brings the enemy's hit points to 0, the enemy card goes on
\* top of the tavern deck (and not to the discard pile) if total_damage equals
\* max_hp exactly, and to the discard pile otherwise; either way all of
\* played_cards, the combo just played included, is in the discard pile and
\* played_cards is empty.
C2_DefeatRouting ==
    Defeating =>
       /\ IF last.d.total = EnemyBefore.max_hp
          THEN /\ game.tavern_deck # <<>>
               /\ Head(game.tavern_deck) = EnemyBefore.card
               /\ EnemyBefore.card \notin Range(game.discard_pile)
          ELSE /\ EnemyBefore.card \in Range(game.discard_pile)
               /\ EnemyBefore.card \notin Range(game.tavern_deck)
       /\ Range(last.pre.played_cards) \cup Range(last.d.cards)
             \subseteq Range(game.discard_pile)
       /\ game.played_cards = <<>>

\* an enemy captured by exact damage after earlier plays of the encounter
C2_Witness ==
    /\ Defeating
    /\ last.d.total = EnemyBefore.max_hp
    /\ last.pre.played_cards # <<>>
    /\ Head(game.tavern_deck) = EnemyBefore.card

BecameVictory == game.game_state = "Victory" /\ last.pre.game_state # "Victory"

\* C3: game_state becomes Victory exactly on the play_cards call that defeats
\* an enemy while the castle deck is empty, which is the defeat of the 12th
\* enemy; the state is never Victory with fewer than 12 enemies defeated.
C3_VictoryOnTwelfth ==
    /\ BecameVictory <=> (Defeating /\ last.pre.castle_deck = <<>>)
    /\ game.game_state = "Victory" => defeats = 12
    /\ BecameVictory => last.res.defeated

C3_Witness == BecameVictory /\ defeats = 12 /\ last.op = "play_cards"

\* the fields a rejected call must leave alone
SameCards ==
    /\ game.player.hand = last.pre.player.hand
    /\ game.tavern_deck = last.pre.tavern_deck
    /\ game.discard_pile = last.pre.discard_pile
    /\ game.played_cards = last.pre.played_cards

SameCombat ==
    /\ game.current_enemy = last.pre.current_enemy
    /\ game.shield_value = last.pre.shield_value
    /\ game.total_damage = last.pre.total_damage

\* the play_cards call was rejected by validate_play
Rejected ==
    /\ last.op = "play_cards"
    /\ last.d.validated # "Ok"
    /\ \E sel \in Selections(last.pre) :
          validate_play(last.pre.player.hand, sel) = last.d.validated

\* C4: when validate_play rejects the selection, play_cards returns that
\* error and leaves the hand, the tavern deck, the discard pile, played_cards,
\* the current enemy, shield_value and total_damage as they were.
C4_RejectedPlayChangesNothing ==
    (last.op = "play_cards" /\ last.d.validated # "Ok") =>
       /\ Rejected
       /\ last.res = Err(last.d.validated)
       /\ SameCards
       /\ SameCombat

\* a rejected combo of two cards of different ranks
C4_Witness ==
    /\ Rejected
    /\ last.res.err = "Combo cards must all have the same rank (or use Ace + 1 card)"
    /\ Len(last.pre.player.hand) >= 2

\* C5: every engine call that returns an error has changed nothing: hand,
\* tavern deck, discard pile, played_cards, current enemy, shield_value,
\* total_damage and jesters_used are as before the call.
C5_ErrorChangesNothing ==
    ~last.res.ok =>
       /\ SameCards
       /\ SameCombat
       /\ game.jesters_used = last.pre.jesters_used

\* the error that play_cards returns after the cards have left the hand: the
\* selection was valid and apply_suit_powers found no current enemy
LatePlayError ==
    /\ last.op = "play_cards"
    /\ last.d.validated = "Ok"
    /\ last.res = Err("No current enemy")

\* C5, what holds of it: every error of the four calls other than that one
\* leaves the hand, the piles, the enemy, shield_value, total_damage and
\* jesters_used as they were.
C5_OtherErrorsChangeNothing ==
    (~last.res.ok /\ ~LatePlayError) =>
       /\ SameCards
       /\ SameCombat
       /\ game.jesters_used = last.pre.jesters_used

\* a valid play after Victory: the error is returned and the selected cards
\* are in no pile
C5_LostCards ==
    /\ LatePlayError
    /\ last.pre.game_state = "Victory"
    /\ Len(game.player.hand) < Len(last.pre.player.hand)
    /\ game.discard_pile = last.pre.discard_pile
    /\ game.played_cards = last.pre.played_cards
    /\ game.tavern_deck = last.pre.tavern_deck

\* C8: a play whose own combo holds no Clubs card adds its undoubled attack
\* value to total_damage, whatever Clubs cards played_cards already holds.
C8_ClubsDoNotPersist ==
    (Attacked /\ ~ComboHas("Clubs")) =>
       /\ last.d.dealt = ComboSum
       /\ last.d.total = last.pre.total_damage + ComboSum

\* a play without Clubs, later in an encounter in which Clubs doubled a play
C8_Witness ==
    /\ Attacked
    /\ ~ComboHas("Clubs")
    /\ \E i \in 1..Len(last.pre.played_cards) : last.pre.played_cards[i].suit = "Clubs"
    /\ ~ImmuneBefore("Clubs")
    /\ last.pre.total_damage > SumSeq(Values(last.pre.played_cards))
    /\ last.d.dealt = ComboSum

\* both red powers active, nothing in the tavern deck, something to heal
HealThenDraw ==
    /\ Attacked
    /\ ComboHas("Hearts") /\ ~ImmuneBefore("Hearts")
    /\ ComboHas("Diamonds") /\ ~ImmuneBefore("Diamonds")
    /\ last.pre.tavern_deck = <<>>
    /\ last.pre.discard_pile # <<>>

\* C9: with Hearts and Diamonds both active in one play, the heal is complete
\* before a card is drawn: from an empty tavern deck and a non-empty discard
\* pile the play still draws, and what it draws are cards it has just healed.
C9_HeartsBeforeDiamonds ==
    HealThenDraw =>
       LET kept == Len(last.pre.player.hand) - Len(last.d.cards)
           healed == Min(ComboSum, Len(last.pre.discard_pile))
       IN /\ last.d.heal_count = healed
          /\ last.d.drawn = Min(healed, 8 - kept)
          /\ last.d.drawn >= 1
          /\ Len(game.player.hand) = kept + last.d.drawn
          /\ Range(game.player.hand) \ Range(last.pre.player.hand)
                \subseteq Range(last.pre.discard_pile)
          /\ Cardinality(Range(game.player.hand) \ Range(last.pre.player.hand))
                = last.d.drawn

C9_Witness == HealThenDraw /\ last.d.drawn >= 2 /\ last.d.heal_count > last.d.drawn

Validated == last.op = "validate_play"

HandV == game.player.hand

InRange == \A i \in 1..Len(last.sel) : last.sel[i] < Len(HandV)

Distinct == \A i, j \in 1..Len(last.sel) : i # j => last.sel[i] # last.sel[j]

\* the card at each selected position, once per occurrence of the position
Selected == [i \in 1..Len(last.sel) |-> HandV[last.sel[i] + 1]]

\* the combo rules on a sequence of cards
Playable(cards) ==
    LET n == Len(cards)
        jester == \E i \in 1..n : cards[i].rank = "Jester"
        ace == \E i \in 1..n : cards[i].rank = "Ace"
    IN \/ n = 1
       \/ n = 2 /\ ~jester /\ ace
       \/ /\ n \in 2..4
          /\ ~jester /\ ~ace
          /\ \A i, j \in 1..n : cards[i].rank = cards[j].rank
          /\ SumSeq(Values(cards)) <= 10

\* C6: a selection of distinct positions of the hand is accepted exactly when
\* it is one card; or two cards, neither a Jester, at least one an Ace; or
\* 2 to 4 cards, no Ace and no Jester, of one rank, with values totalling at
\* most 10.
C6_ComboRules ==
    (Validated /\ last.sel # <<>> /\ InRange /\ Distinct) =>
       (last.res.ok <=> Playable(Selected))

\* an accepted combo of three cards of one rank
C6_Witness ==
    /\ Validated /\ InRange /\ Distinct
    /\ Len(last.sel) = 3
    /\ last.res.ok
    /\ Playable(Selected)

\* an accepted pair totalling exactly 10
C6_WitnessTen ==
    /\ Validated /\ InRange /\ Distinct
    /\ Len(last.sel) = 2
    /\ SumSeq(Values(Selected)) = 10
    /\ Selected[1].rank = Selected[2].rank
    /\ last.res.ok

\* C7 as claimed: validate_play returns an error when the selection is empty,
\* names a position outside the hand, or names the same position twice.
C7_Original ==
    (Validated /\ (last.sel = <<>> \/ ~InRange \/ ~Distinct)) => ~last.res.ok

\* C7 as amended: an empty selection and a position outside the hand are
\* errors; a position named more than once is not detected: it resolves to
\* the same card once per occurrence and the combo rules alone decide.
C7_Amended ==
    Validated =>
       /\ last.sel = <<>> => last.res = Err("Must select at least one card")
       /\ (last.sel # <<>> /\ ~InRange) => last.res = Err("Invalid card indices")
       /\ (last.sel # <<>> /\ InRange /\ ~Distinct) =>
             (last.res.ok <=> Playable(Selected))

\* the same position selected twice, accepted as a pair
C7_Witness ==
    /\ Validated /\ InRange /\ ~Distinct
    /\ Len(last.sel) = 2
    /\ last.res.ok

\* a selection with a position outside the hand, rejected
C7_WitnessRange ==
    /\ Validated /\ ~InRange
    /\ \E i \in 1..Len(last.sel) : last.sel[i] < Len(HandV)
    /\ last.res.err = "Invalid card indices"

(***************************************************************************)
(* The shield, the Jester and the other calls.                             *)
(***************************************************************************)
\* the call defeated the enemy and revealed the next one
RevealedNext == last.d.is_defeated /\ game.current_enemy # <<>>

\* C11: within one encounter no call lowers shield_value, and shield_value
\* is 0 right after every reveal of a new enemy: only a reveal resets it.
C11_ShieldMonotone ==
    last.op # "new_solo" =>
       IF RevealedNext
       THEN game.shield_value = 0
       ELSE game.shield_value >= last.pre.shield_value

\* a reveal that reset a shield that had been built up
C11_Witness ==
    /\ RevealedNext
    /\ last.pre.shield_value > 0
    /\ game.shield_value = 0

\* a Spades play that added to a shield already built up against this enemy
C11_WitnessGrows ==
    /\ last.op = "play_cards" /\ last.res.ok /\ ~last.d.is_defeated
    /\ last.pre.shield_value > 0
    /\ game.shield_value > last.pre.shield_value

\* a successful play of a lone Jester against an enemy
JesterPlayed ==
    /\ last.op = "play_cards" /\ last.res.ok
    /\ Len(last.d.cards) = 1 /\ is_jester(last.d.cards[1])
    /\ last.pre.current_enemy # <<>>

\* the values of the Spades cards played against the enemy so far
SpadesPlayed ==
    SumSeq(Values(SelectSeq(last.pre.played_cards, LAMBDA c : c.suit = "Spades")))

\* C12 as claimed: the first Jester played against a Spades enemy adds the
\* values of the Spades cards of played_cards to shield_value; a further
\* Jester against that enemy adds nothing; a Jester against an enemy of
\* another suit leaves shield_value as it was.
C12_BackfillOnce ==
    JesterPlayed =>
       LET enemy == last.pre.current_enemy[1]
       IN game.shield_value =
             IF enemy.card.suit = "Spades" /\ ~enemy.immunity_cancelled
             THEN last.pre.shield_value + SpadesPlayed
             ELSE last.pre.shield_value

\* C12, what the code does: every Jester played against a Spades enemy adds
\* the values of all the Spades cards of played_cards, counted or not.
C12_BackfillEveryJester ==
    JesterPlayed =>
       LET enemy == last.pre.current_enemy[1]
       IN game.shield_value =
             IF enemy.card.suit = "Spades"
             THEN last.pre.shield_value + SpadesPlayed
             ELSE last.pre.shield_value

\* a second Jester against the same Spades enemy raised the shield again
C12_CountedTwice ==
    /\ JesterPlayed
    /\ last.pre.current_enemy[1].card.suit = "Spades"
    /\ last.pre.current_enemy[1].immunity_cancelled
    /\ game.shield_value > last.pre.shield_value

\* the hand without the card at position i (from 1)
Without(hand, i) == SubSeq(hand, 1, i - 1) \o SubSeq(hand, i + 1, Len(hand))

\* C13: a successful play of a lone Jester cancels the enemy's immunity,
\* moves the Jester from the hand to the discard pile, sets
\* jester_played_this_turn and returns Ok(false); total_damage, the enemy's
\* hit points, played_cards, the tavern deck and the other hand cards stay.
C13_JesterPlay ==
    JesterPlayed =>
       /\ game.current_enemy =
             <<[last.pre.current_enemy[1] EXCEPT !.immunity_cancelled = TRUE]>>
       /\ \E i \in 1..Len(last.pre.player.hand) :
             /\ is_jester(last.pre.player.hand[i])
             /\ game.player.hand = Without(last.pre.player.hand, i)
             /\ game.discard_pile = Append(last.pre.discard_pile, last.pre.player.hand[i])
       /\ game.jester_played_this_turn
       /\ last.res = OkDefeated(FALSE)
       /\ game.total_damage = last.pre.total_damage
       /\ game.played_cards = last.pre.played_cards
       /\ game.tavern_deck = last.pre.tavern_deck

\* a Jester played against a Clubs enemy after a Clubs card was blocked
C13_Witness ==
    /\ JesterPlayed
    /\ last.pre.current_enemy[1].card.suit = "Clubs"
    /\ ~last.pre.current_enemy[1].immunity_cancelled
    /\ \E j \in 1..Len(last.pre.played_cards) : last.pre.played_cards[j].suit = "Clubs"
    /\ game.total_damage > 0
    /\ Len(game.player.hand) > 0

\* a successful play holding a card of the suit of an enemy whose immunity
\* stands
Blocked(suit) ==
    /\ Attacked
    /\ EnemyBefore.card.suit = suit
    /\ ~EnemyBefore.immunity_cancelled
    /\ ComboHas(suit)

\* C14: a played card of the suit of an enemy whose immunity stands has no
\* power (Hearts heals nothing, Diamonds draws nothing, Clubs does not
\* double, Spades shields nothing), and the combo's attack value is still
\* dealt to the enemy.
C14_ImmunityBlocksPower ==
    /\ (\E suit \in Suit : Blocked(suit)) =>
          /\ last.d.dealt >= ComboSum
          /\ ComboSum >= 1
          /\ last.d.total = last.pre.total_damage + last.d.dealt
          /\ last.d.hp_after = Max(0, EnemyBefore.current_hp - last.d.dealt)
          /\ ~last.d.is_defeated =>
                /\ game.total_damage = last.d.total
                /\ game.current_enemy[1].current_hp = last.d.hp_after
    /\ Blocked("Hearts") =>
          /\ last.d.heal_count = 0
          /\ ~last.d.is_defeated => game.discard_pile = last.pre.discard_pile
          /\ ~last.d.exact => game.tavern_deck = Drop(last.pre.tavern_deck, last.d.drawn)
    /\ Blocked("Diamonds") =>
          /\ last.d.drawn = 0
          /\ Len(game.player.hand) = Len(last.pre.player.hand) - Len(last.d.cards)
          /\ Range(game.player.hand) \subseteq Range(last.pre.player.hand)
    /\ Blocked("Clubs") => last.d.dealt = ComboSum
    /\ Blocked("Spades") =>
          /\ last.d.spades_power = 0
          /\ ~last.d.is_defeated => game.shield_value = last.pre.shield_value

\* Diamonds blocked where a draw was possible
C14_Witness ==
    /\ Blocked("Diamonds")
    /\ last.pre.tavern_deck # <<>>
    /\ Len(game.player.hand) < 8
    /\ game.total_damage > last.pre.total_damage

\* Hearts blocked where a heal was possible
C14_WitnessHearts == Blocked("Hearts") /\ last.pre.discard_pile # <<>>

C14_WitnessClubs == Blocked("Clubs") /\ last.d.dealt > 0

C14_WitnessSpades == Blocked("Spades") /\ ~last.d.is_defeated

\* C15: use_jester succeeds on its first jester_count calls of a game and
\* fails with "No Jesters remaining" on every later one; jesters_used never
\* decreases and never exceeds jester_count.
C15_JesterLimit ==
    /\ game.jesters_used <= game.jester_count
    /\ game.jesters_used >= last.pre.jesters_used
    /\ game.jester_count = last.pre.jester_count
    /\ last.op = "use_jester" =>
          IF jester_calls <= game.jester_count
          THEN last.res = Ok /\ game.jesters_used = jester_calls
          ELSE last.res = Err("No Jesters remaining")

\* the third call of a game, refused
C15_Witness ==
    /\ last.op = "use_jester"
    /\ jester_calls = 3
    /\ ~last.res.ok
    /\ game.jesters_used = 2

UsedJester == last.op = "use_jester" /\ last.res.ok

\* C16: a successful use_jester moves the whole hand to the discard pile and
\* then draws the top 8 cards of the tavern deck, or all of it if it holds
\* fewer, into the hand; the discarded hand is not drawn from; the enemy,
\* shield_value, total_damage and played_cards stay.
C16_JesterRefill ==
    UsedJester =>
       /\ game.discard_pile = last.pre.discard_pile \o last.pre.player.hand
       /\ Len(game.player.hand) = Min(8, Len(last.pre.tavern_deck))
       /\ game.player.hand = SubSeq(last.pre.tavern_deck, 1, Len(game.player.hand))
       /\ game.tavern_deck =
             SubSeq(last.pre.tavern_deck, Len(game.player.hand) + 1,
                    Len(last.pre.tavern_deck))
       /\ SameCombat
       /\ game.played_cards = last.pre.played_cards

\* a refill from a tavern deck of fewer than 8 cards
C16_Witness ==
    /\ UsedJester
    /\ Len(last.pre.tavern_deck) \in 1..7
    /\ last.pre.player.hand # <<>>
    /\ Len(game.player.hand) = Len(last.pre.tavern_deck)

\* a refill to 8 cards
C16_WitnessFull ==
    /\ UsedJester
    /\ Len(last.pre.tavern_deck) > 8
    /\ Len(last.pre.player.hand) \in 1..7
    /\ Len(game.player.hand) = 8

\* a discard_to_survive call with an enemy present
Discarding == last.op = "discard_to_survive" /\ last.pre.current_enemy # <<>>

\* the enemy's attack less the shield, not below 0
Required == Max(0, EnemyBefore.attack - last.pre.shield_value)

\* the hand cards at the positions of a selection
CardsAt(hand, sel) ==
    LET inr == SelectSeq(sel, LAMBDA i : i < Len(hand))
    IN [j \in 1..Len(inr) |-> hand[inr[j] + 1]]

\* C17: discard_to_survive fails and changes nothing when the selected hand
\* cards are worth less than the enemy's attack less the shield (not below
\* 0); otherwise it moves exactly the selected cards from the hand to the
\* discard pile and leaves the enemy, shield_value, total_damage, the tavern
\* deck and played_cards as they were.
C17_DiscardToSurvive ==
    Discarding =>
       IF last.res.ok
       THEN LET cards == last.d.cards
            IN /\ SumSeq(Values(cards)) >= Required
               /\ last.d.attack_value = SumSeq(Values(cards))
               /\ Len(game.player.hand) = Len(last.pre.player.hand) - Len(cards)
               /\ \A c \in Range(last.pre.player.hand) :
                     Cardinality({i \in 1..Len(game.player.hand) : game.player.hand[i] = c})
                     + Cardinality({i \in 1..Len(cards) : cards[i] = c})
                     = Cardinality({i \in 1..Len(last.pre.player.hand) :
                                       last.pre.player.hand[i] = c})
               /\ game.discard_pile = last.pre.discard_pile \o cards
               /\ SameCombat
               /\ game.tavern_deck = last.pre.tavern_deck
               /\ game.played_cards = last.pre.played_cards
       ELSE /\ last.res = Err("Not enough value")
            /\ last.d.required = Required
            /\ last.d.attack_value < Required
            /\ \E sel \in Selections(last.pre) :
                  SumSeq(Values(CardsAt(last.pre.player.hand, sel))) = last.d.attack_value
            /\ SameCards
            /\ SameCombat

\* a discard that covers a shielded attack exactly
C17_Witness ==
    /\ Discarding /\ last.res.ok
    /\ last.pre.shield_value > 0
    /\ Required > 0
    /\ SumSeq(Values(last.d.cards)) = Required

\* a discard refused for one point
C17_WitnessShort ==
    /\ Discarding /\ ~last.res.ok
    /\ last.d.attack_value + 1 = last.d.required

\* C18: enemy_attack returns the enemy's attack less shield_value, not below
\* 0, when there is a current enemy and an error when there is none; either
\* way the hand, shield_value, the enemy, the decks, the discard pile and
\* game_state are as before.
C18_EnemyAttack ==
    last.op = "enemy_attack" =>
       /\ IF last.pre.current_enemy = <<>>
          THEN last.res = Err("No current enemy")
          ELSE last.res = OkDamage(Max(0, EnemyBefore.attack - last.pre.shield_value))
       /\ SameCards
       /\ SameCombat
       /\ game.castle_deck = last.pre.castle_deck
       /\ game.game_state = last.pre.game_state

\* an attack partly absorbed by the shield
C18_Witness ==
    /\ last.op = "enemy_attack" /\ last.res.ok
    /\ last.pre.shield_value > 0
    /\ last.res.damage > 0
    /\ last.res.damage < EnemyBefore.attack

\* an attack wholly absorbed
C18_WitnessBlocked ==
    /\ last.op = "enemy_attack" /\ last.res.ok
    /\ last.pre.shield_value >= EnemyBefore.attack
    /\ last.res.damage = 0

\* no enemy to attack
C18_WitnessNoEnemy ==
    /\ last.op = "enemy_attack" /\ ~last.res.ok
    /\ game.game_state = "Victory"

\* C19: yield_turn always succeeds; it sets jester_played_this_turn to false
\* and appends an entry to the log, and changes nothing else.
C19_YieldTurn ==
    last.op = "yield_turn" =>
       /\ last.res = Ok
       /\ ~game.jester_played_this_turn
       /\ game.game_log.last = "Yielded turn"
       /\ game.game_log.len = Min(last.pre.game_log.len + 1, 100)
       /\ [game EXCEPT !.jester_played_this_turn = last.pre.jester_played_this_turn,
                       !.game_log = last.pre.game_log] = last.pre

\* a yield right after a Jester was played
C19_Witness ==
    /\ last.op = "yield_turn"
    /\ last.pre.jester_played_this_turn
    /\ ~game.jester_played_this_turn
    /\ game.player.hand # <<>>

\* a yield in a game that is won
C19_WitnessVictory == last.op = "yield_turn" /\ game.game_state = "Victory"

\* the rank of the i-th enemy of a game
LayerRank(i) == IF i <= 4 THEN "Jack" ELSE IF i <= 8 THEN "Queen" ELSE "King"

\* C20: the enemies of a game are revealed four Jacks first, then four
\* Queens, then four Kings, no card twice: an enemy captured or discarded
\* does not come back as an enemy.
C20_RevealOrder ==
    /\ Len(revealed) = Min(defeats + 1, 12)
    /\ \A i \in 1..Len(revealed) : revealed[i].rank = LayerRank(i)
    /\ \A i, j \in 1..Len(revealed) : i # j => revealed[i] # revealed[j]
    /\ game.current_enemy # <<>> => game.current_enemy[1].card = revealed[Len(revealed)]
    /\ \A i \in 1..Len(game.castle_deck) :
          /\ game.castle_deck[i].rank = LayerRank(Len(revealed) + i)
          /\ game.castle_deck[i] \notin Range(revealed)
    /\ Len(revealed) + Len(game.castle_deck) = 12

\* all twelve revealed, an earlier one captured and played again since
C20_Witness ==
    /\ Len(revealed) = 12
    /\ \E i \in 1..11 :
          revealed[i] \in Range(game.discard_pile) \cup Range(game.player.hand)
                          \cup Range(game.tavern_deck)

\* a captured enemy in the hand while a later enemy stands
C20_WitnessInHand ==
    /\ game.current_enemy # <<>>
    /\ \E i \in 1..Len(revealed) : revealed[i] \in Range(game.player.hand)

(***************************************************************************)
(* Invariants of the decks, the enemy and the flags.                       *)
(***************************************************************************)
\* the enemies not yet resolved: those in the castle deck and the one faced
Remaining == Len(game.castle_deck) + Len(game.current_enemy)

RemainingBefore == Len(last.pre.castle_deck) + Len(last.pre.current_enemy)

\* C21 as claimed: the castle deck holds 12 cards at the start, one fewer
\* after each resolution of an enemy until it is empty, and the game is in
\* Victory when it is empty.
C21_Original ==
    /\ last.op = "new_solo" => Len(game.castle_deck) = 12
    /\ (last.d.is_defeated /\ last.pre.castle_deck # <<>>) =>
          Len(game.castle_deck) = Len(last.pre.castle_deck) - 1
    /\ game.castle_deck = <<>> => game.game_state = "Victory"

\* C21 as amended: new_solo reveals the first of the 12 enemies, leaving 11
\* in the castle deck; the enemies not yet resolved (castle deck and current
\* enemy) number 12 less the resolutions; each of the first 11 resolutions
\* takes one card off the castle deck, the 12th finds it empty and declares
\* Victory; no other call touches the castle deck.
C21_Amended ==
    /\ last.op = "new_solo" => Len(game.castle_deck) = 11 /\ game.current_enemy # <<>>
    /\ Remaining = 12 - defeats
    /\ Len(game.castle_deck) = Max(0, 11 - defeats)
    /\ IF last.d.is_defeated
       THEN /\ Remaining = RemainingBefore - 1
            /\ last.pre.castle_deck # <<>> => game.castle_deck = Tail(last.pre.castle_deck)
       ELSE last.op # "new_solo" => game.castle_deck = last.pre.castle_deck
    /\ game.game_state = "Victory" <=> Remaining = 0

\* the last enemy faced: the castle deck is empty and the game is not won
C21_Witness ==
    /\ game.castle_deck = <<>>
    /\ game.current_enemy # <<>>
    /\ game.game_state = "Playing"
    /\ last.d.is_defeated

\* C22: an enemy is revealed with current_hp = max_hp and immunity_cancelled
\* false; while it is the current enemy its current_hp never increases and
\* stays within 0..max_hp, and immunity_cancelled, once true, stays true; the
\* enemy counts as defeated exactly when the damage brought current_hp to 0.
C22_EnemyFields ==
    /\ game.current_enemy # <<>> =>
          LET e == game.current_enemy[1]
          IN /\ e.current_hp \in 0..e.max_hp
             /\ e.max_hp = EnemyNew(e.card).max_hp
             /\ is_defeated(e) <=> e.current_hp = 0
             /\ (last.op = "new_solo" /\ last.pre = game) \/ last.d.is_defeated =>
                   e = EnemyNew(e.card)
             /\ (last.op # "new_solo" /\ ~last.d.is_defeated) =>
                   /\ last.pre.current_enemy # <<>>
                   /\ e.card = EnemyBefore.card
                   /\ e.current_hp <= EnemyBefore.current_hp
                   /\ EnemyBefore.immunity_cancelled => e.immunity_cancelled
    /\ Attacked =>
          /\ last.d.hp_after \in 0..EnemyBefore.current_hp
          /\ last.d.is_defeated <=> last.d.hp_after = 0
          /\ last.d.is_defeated <=> last.d.dealt >= EnemyBefore.current_hp

\* an enemy whose immunity a Jester had cancelled is defeated by more damage
\* than it had hit points left, and the next enemy is revealed afresh
C22_Witness ==
    /\ Attacked
    /\ EnemyBefore.immunity_cancelled
    /\ EnemyBefore.current_hp < EnemyBefore.max_hp
    /\ last.d.dealt > EnemyBefore.current_hp
    /\ last.d.is_defeated
    /\ game.current_enemy # <<>>
    /\ ~game.current_enemy[1].immunity_cancelled
    /\ game.current_enemy[1].current_hp = game.current_enemy[1].max_hp

\* C23: after yield_turn and after play_cards, whether it succeeded or
\* failed, jester_played_this_turn is false, except after a successful play
\* of a lone Jester, after which it is true.
C23_JesterFlag ==
    last.op \in {"play_cards", "yield_turn"} =>
       (game.jester_played_this_turn <=>
           /\ last.op = "play_cards" /\ last.res.ok
           /\ Len(last.d.cards) = 1 /\ is_jester(last.d.cards[1]))

\* a play rejected right after a Jester was played: the flag is down again
C23_Witness ==
    /\ last.op = "play_cards" /\ ~last.res.ok
    /\ last.pre.jester_played_this_turn
    /\ ~game.jester_played_this_turn

\* a Jester played right after a Jester: the flag is up
C23_WitnessJester ==
    /\ JesterPlayed
    /\ last.pre.jester_played_this_turn
    /\ game.jester_played_this_turn

\* C24 as claimed: once game_state is Victory or Defeat, no call changes it.
C24_Absorbing ==
    last.pre.game_state \in {"Victory", "Defeat"} => game.game_state = last.pre.game_state

\* C24, what holds: Victory is never left; the engine never writes Defeat;
\* and a game in Defeat changes state only to Victory, by a play that
\* defeats the twelfth enemy.
C24_VictoryAbsorbing ==
    /\ last.pre.game_state = "Victory" => game.game_state = "Victory"
    /\ (game.game_state = "Defeat" /\ last.pre.game_state # "Defeat") =>
          last.op = "counterattack"
    /\ (last.pre.game_state = "Defeat" /\ game.game_state # "Defeat") =>
          /\ game.game_state = "Victory"
          /\ Defeating
          /\ defeats = 12

\* a game in Defeat is played on and won
C24_DefeatToVictory ==
    /\ last.pre.game_state = "Defeat"
    /\ game.game_state = "Victory"

(***************************************************************************)
(* The red powers.                                                         *)
(***************************************************************************)
\* a successful play with the Hearts power active
HeartsActive == Attacked /\ ComboHas("Hearts") /\ ~ImmuneBefore("Hearts")

\* the cards that were in the discard pile before the play and are not after
HealedCards == Range(last.pre.discard_pile) \ Range(game.discard_pile)

\* the tavern deck as the powers left it: the cards the play drew, put back
\* on top, and without the captured enemy that an exact defeat puts on top
TavernAfterHeal ==
    LET n == Len(game.player.hand)
        drawn == SubSeq(game.player.hand, n - last.d.drawn + 1, n)
    IN drawn \o (IF last.d.exact THEN Tail(game.tavern_deck) ELSE game.tavern_deck)

\* C25: with the Hearts power active, exactly min(attack_value, discard pile
\* size) cards leave the discard pile for the bottom of the tavern deck; the
\* cards that were in the tavern deck stay in their order above them; the
\* cards just played are not among them.
C25_HeartsHeal ==
    HeartsActive =>
       LET before == Len(last.pre.tavern_deck)
       IN /\ last.d.hearts_power = ComboSum
          /\ last.d.heal_count = Min(ComboSum, Len(last.pre.discard_pile))
          /\ Cardinality(HealedCards) = last.d.heal_count
          /\ Len(TavernAfterHeal) = before + last.d.heal_count
          /\ Take(TavernAfterHeal, before) = last.pre.tavern_deck
          /\ Range(Drop(TavernAfterHeal, before)) = HealedCards
          /\ HealedCards \cap Range(last.d.cards) = {}
          /\ Range(last.d.cards) \cap Range(game.tavern_deck) = {}

\* a heal of some but not all of the discard pile under cards of the tavern deck
C25_Witness ==
    /\ HeartsActive
    /\ last.pre.tavern_deck # <<>>
    /\ last.d.heal_count >= 2
    /\ last.d.heal_count = ComboSum
    /\ last.d.heal_count < Len(last.pre.discard_pile)

\* a heal that empties a discard pile smaller than the attack value
C25_WitnessAll ==
    /\ HeartsActive
    /\ last.d.heal_count >= 1
    /\ last.d.heal_count = Len(last.pre.discard_pile)
    /\ last.d.heal_count < ComboSum

\* a successful play with the Diamonds power active
DiamondsActive == Attacked /\ ComboHas("Diamonds") /\ ~ImmuneBefore("Diamonds")

\* the hand cards that were not played
Kept == Len(last.pre.player.hand) - Len(last.d.cards)

\* the tavern deck at the time of the draw: after the heal of the same play
TavernAtDraw == Len(last.pre.tavern_deck) + last.d.heal_count

\* C26: with the Diamonds power active the play draws exactly
\* min(attack_value, 8 - hand size once the played cards are out, tavern
\* deck size after the heal of the same play) cards from the top of the
\* tavern deck into the hand, and succeeds however few that is.
C26_DiamondsDraw ==
    DiamondsActive =>
       LET n == Len(game.player.hand)
       IN /\ last.res.ok
          /\ last.d.diamonds_power = ComboSum
          /\ last.d.drawn = Min(ComboSum, Min(8 - Kept, TavernAtDraw))
          /\ n = Kept + last.d.drawn
          /\ Range(SubSeq(game.player.hand, 1, Kept)) =
                Range(last.pre.player.hand) \ Range(last.d.cards)
          /\ last.d.drawn <= Len(last.pre.tavern_deck) =>
                SubSeq(game.player.hand, Kept + 1, n) =
                   Take(last.pre.tavern_deck, last.d.drawn)
          /\ Len(TavernAfterHeal) = TavernAtDraw

\* a draw cut short by the full hand
C26_Witness ==
    /\ DiamondsActive
    /\ last.d.drawn >= 1
    /\ last.d.drawn = 8 - Kept
    /\ last.d.drawn < ComboSum
    /\ last.d.drawn < TavernAtDraw

\* a draw cut short by the tavern deck
C26_WitnessTavern ==
    /\ DiamondsActive
    /\ last.d.drawn = TavernAtDraw
    /\ last.d.drawn < ComboSum
    /\ last.d.drawn < 8 - Kept

\* a draw of the whole attack value
C26_WitnessWhole ==
    /\ DiamondsActive
    /\ last.d.drawn = ComboSum
    /\ last.d.drawn < 8 - Kept
    /\ last.d.drawn < TavernAtDraw

\* C27: in every state reached from new_solo by calls of the engine the
\* hand holds at most 8 cards, the max_hand_size of a solo game.
C27_HandLimit ==
    /\ game.player.max_hand_size = 8
    /\ Len(game.player.hand) <= game.player.max_hand_size

\* a hand of 8 cards, refilled by use_jester or by a draw that the full hand
\* stopped, with cards left in the tavern deck
C27_Witness ==
    /\ Len(game.player.hand) = 8
    /\ game.tavern_deck # <<>>
    /\ \/ UsedJester /\ Len(last.pre.player.hand) < 8
       \/ DiamondsActive /\ last.d.drawn < ComboSum

\* C28: a game that is Playing has a current enemy, so play_cards,
\* enemy_attack and discard_to_survive return "No current enemy" only in a
\* game that has ended.
C28_EnemyWhilePlaying ==
    /\ game.game_state = "Playing" => game.current_enemy # <<>>
    /\ last.res.err = "No current enemy" =>
          /\ last.pre.game_state # "Playing"
          /\ last.pre.current_enemy = <<>>
          /\ last.op \in {"play_cards", "enemy_attack", "discard_to_survive"}

\* the moment the current enemy is taken away: a defeat, after which the
\* game is Playing and the next enemy is there
C28_Witness ==
    /\ Defeating
    /\ game.game_state = "Playing"
    /\ game.current_enemy # <<>>
    /\ game.current_enemy[1].card # EnemyBefore.card

\* the error, in a game that is won
C28_WitnessEnded ==
    /\ last.op = "discard_to_survive"
    /\ last.res.err = "No current enemy"
    /\ last.pre.game_state = "Victory"

\* a successful play of the Ace of Hearts with the 5 of Diamonds, neither
\* suit blocked
AcePair ==
    /\ Attacked
    /\ Len(last.d.cards) = 2
    /\ Range(last.d.cards) = {Card("Hearts", "Ace"), Card("Diamonds", "Five")}
    /\ ~ImmuneBefore("Hearts") /\ ~ImmuneBefore("Diamonds")

\* C29 as claimed: the Ace of Hearts played with the 5 of Diamonds deals 6
\* damage, heals 1 card and draws 5 cards (as far as the discard pile, the
\* hand and the tavern deck allow).
C29_HelpText ==
    AcePair =>
       /\ last.d.dealt = 6
       /\ last.d.heal_count = Min(1, Len(last.pre.discard_pile))
       /\ last.d.drawn = Min(5, Min(8 - Kept, TavernAtDraw))

\* C29, what holds: the pair deals 6 damage, and each of the two powers
\* works with the whole attack value: the play heals 6 cards and draws 6
\* cards, as far as the discard pile, the hand and the tavern deck allow.
C29_AcePairing ==
    AcePair =>
       /\ last.d.attack_value = 6
       /\ last.d.dealt = 6
       /\ last.d.hearts_power = 6
       /\ last.d.diamonds_power = 6
       /\ last.d.heal_count = Min(6, Len(last.pre.discard_pile))
       /\ last.d.drawn = Min(6, Min(8 - Kept, TavernAtDraw))
       /\ Len(game.discard_pile) >= Len(last.pre.discard_pile) - last.d.heal_count
       /\ Len(game.player.hand) = Kept + last.d.drawn

\* the pair heals 6 cards and draws 6 cards
C29_SixAndSix ==
    /\ AcePair
    /\ last.d.dealt = 6
    /\ last.d.heal_count = 6
    /\ last.d.drawn = 6
    /\ Len(game.player.hand) = 6

(***************************************************************************)
(* The turn order of the application.                                      *)
(***************************************************************************)
\* the handler just run is a successful play or a successful yield
Acted == last.op \in {"play_cards", "yield_turn"} /\ last.res.ok

\* the handler just run must be answered by the enemy: a yield, or a play
\* that neither defeated the enemy nor was a Jester play
Answerable ==
    /\ Acted
    /\ last.op = "play_cards" => ~last.res.defeated /\ ~is_jester(last.d.cards[1])

\* the handler just run called enemy_attack and the call returned Ok
Answered == last.attack # <<>> /\ last.attack[1].ok

\* C30: in the application loop, a successful play that neither defeats the
\* enemy nor is a Jester play, and every successful yield, is answered by
\* enemy_attack before the player plays or yields again: no play or yield
\* succeeds while a counterattack is still owed; a play that defeats the
\* enemy, and a Jester play, is followed by no counterattack and no discard
\* phase.
C30_CounterattackFirst ==
    /\ Acted => ~last.owed_before
    /\ Acted /\ ~Answerable => last.attack = <<>> /\ app.state # "DiscardPhase"

\* C30, what the application does: in a game that is Playing the handler
\* itself calls enemy_attack after a yield and after a play that neither
\* defeats the enemy nor is a Jester play, and only then; a counterattack
\* stays owed only in a game that was already over when the handler ran, and
\* there every successful play goes unanswered.
C30_CounterattackWhilePlaying ==
    /\ Acted /\ last.pre.game_state = "Playing" =>
          /\ Answerable <=> Answered
          /\ ~Answerable => last.attack = <<>> /\ app.state \in {"Playing", "Victory"}
          /\ ~last.owed
    /\ Acted /\ last.op = "yield_turn" => Answered
    /\ Acted /\ last.op = "play_cards" /\ last.pre.game_state # "Playing" =>
          /\ last.attack = <<>>
          /\ app.state = game.game_state
    /\ last.owed => game.game_state # "Playing"
    /\ Acted /\ last.owed_before => last.pre.game_state # "Playing"

\* a lost game, its quit confirmation cancelled, takes a play that does not
\* defeat the enemy and is not answered, and then a second play
C30_SecondPlayUnanswered ==
    /\ last.op = "play_cards" /\ last.res.ok
    /\ last.owed_before
    /\ last.app_pre.state = "Playing"
    /\ last.pre.game_state = "Defeat"
    /\ ~last.res.defeated /\ last.attack = <<>>

\* the damage of the counterattack the handler just run has made
Damage == last.attack[1].damage

\* the total value of the cards in hand
HandValue == SumSeq(Values(game.player.hand))

\* C31: when the counterattack does damage, the application writes Defeat
\* (into its own state and into game_state) exactly when the total value of
\* the hand is less than the damage, and otherwise enters the discard phase
\* with the damage as the requirement; when the damage is 0 the application
\* stays in Playing.  Short of Defeat the counterattack leaves game_state alone.
C31_CounterattackOutcome ==
    Answered =>
       /\ Damage > 0 /\ HandValue < Damage =>
             game.game_state = "Defeat" /\ app.state = "Defeat"
       /\ Damage > 0 /\ HandValue >= Damage =>
             /\ app.state = "DiscardPhase" /\ app.required_damage = Damage
             /\ game.game_state = last.pre.game_state
       /\ Damage = 0 =>
             /\ app.state = "Playing" /\ app.required_damage = 0
             /\ game.game_state = last.pre.game_state

\* a yield in a game that is Playing, answered by an attack the hand cannot pay
C31_Witness ==
    /\ Answered /\ last.op = "yield_turn" /\ last.pre.game_state = "Playing"
    /\ Damage > 0 /\ HandValue < Damage
    /\ app.state = "Defeat" /\ game.game_state = "Defeat"

\* a play answered by an attack the hand can pay
C31_WitnessDiscard ==
    /\ Answered /\ last.op = "play_cards"
    /\ Damage > 0 /\ HandValue >= Damage
    /\ app.state = "DiscardPhase" /\ app.required_damage = Damage

\* a play whose shield takes the whole attack
C31_WitnessZero ==
    /\ Answered /\ last.op = "play_cards" /\ Damage = 0
    /\ game.shield_value >= game.current_enemy[1].attack
    /\ app.state = "Playing"

Confirmations == {"QuitConfirmation", "RestartConfirmation"}

\* C32: once the application has entered the discard phase, no key sequence
\* leads back to Playing on the same game, and no play_cards or yield_turn
\* call is made, until a discard_to_survive call has succeeded.
C32_DiscardBeforePlaying ==
    /\ last.unpaid => app.state # "Playing"
    /\ last.op \in {"play_cards", "yield_turn"} => ~last.unpaid_before

\* C32, what the application does: the keys of the discard phase itself
\* neither play nor yield, and they leave the phase only by a successful
\* discard, by a restart or by opening a confirmation; but cancelling either
\* confirmation enters Playing whatever the state it was opened from, with
\* the game untouched, and there the player plays and yields with the damage
\* unpaid.
C32_OnlyThroughConfirmation ==
    /\ last.app_pre.state = "DiscardPhase" =>
          /\ last.op \notin {"play_cards", "yield_turn"}
          /\ app.state = "Playing" => last.op = "discard_to_survive" /\ last.res.ok
          /\ app.state \notin {"DiscardPhase", "Playing"} =>
                /\ last.key \in {"q", "r"}
                /\ app.state \in Confirmations
                /\ game = last.pre
    /\ last.unpaid /\ ~last.unpaid_before => app.state = "DiscardPhase"
    /\ last.app_pre.state \in Confirmations /\ last.key \in {"n", "N", "Esc"}
       /\ ~last.app_pre.show_help =>
          app.state = "Playing" /\ game = last.pre /\ last.unpaid = last.unpaid_before
    /\ last.unpaid /\ app.state = "Playing" /\ last.app_pre.state # "Playing" =>
          last.app_pre.state \in Confirmations

\* the discard phase left through a cancelled confirmation, and then a
\* successful play or yield in the same game with the damage unpaid
C32_PlayedUnpaid ==
    /\ last.op \in {"play_cards", "yield_turn"} /\ last.res.ok
    /\ last.unpaid_before
    /\ last.pre.game_state = "Playing"
    /\ last.app_pre.state = "Playing"

Finished == {"Victory", "Defeat"}

EngineCalls == {"play_cards", "yield_turn", "discard_to_survive", "use_jester"}

\* C33: once the application shows Victory or Defeat, the only way back to
\* Playing is a restart that creates a new game: a finished game is never in
\* Playing again, and no play, yield, discard or Jester power succeeds on it.
C33_FinishedStaysFinished ==
    /\ game.game_state \in Finished => app.state # "Playing"
    /\ last.op \in EngineCalls /\ last.res.ok => last.pre.game_state = "Playing"

\* C33, what the application does: the Victory and Defeat screens themselves
\* take only a restart, which deals a new game, and the global keys; whenever
\* the application shows Victory or Defeat the game is in that state; but
\* 'q' opens the quit confirmation on a finished game too, cancelling it
\* enters Playing with the finished game untouched, and a finished game
\* reaches Playing in no other way.
C33_FinishedThroughConfirmation ==
    /\ last.app_pre.state \in Finished =>
          /\ last.op \in {"", "new_solo"}
          /\ app.state = "Playing" <=> last.op = "new_solo"
          /\ last.op = "new_solo" => last.key = "r" /\ game.game_state = "Playing"
          /\ app.state \notin Finished \cup {"Playing"} =>
                last.key = "q" /\ app.state = "QuitConfirmation" /\ game = last.pre
    /\ app.state \in Finished => game.game_state = app.state
    /\ app.state = "Playing" /\ last.app_pre.state # "Playing"
       /\ game.game_state \in Finished /\ last.op = "" =>
          last.app_pre.state \in Confirmations /\ last.key \in {"n", "N", "Esc"}

\* a lost game, its quit confirmation cancelled, has taken the Jester power
\* and a yield, and now a discard succeeds on it
C33_FinishedGameDiscards ==
    /\ last.op = "discard_to_survive" /\ last.res.ok
    /\ last.pre.game_state = "Defeat"
    /\ jester_calls > 0
    /\ app.state = "Playing"

(***************************************************************************)
(* Invariants of a solo game.                                              *)
(***************************************************************************)
\* every pile of the game, one after the other
Piles(g) ==
    g.castle_deck \o enemy_card(g) \o g.tavern_deck \o g.player.hand
       \o g.discard_pile \o g.played_cards

\* the 52 cards of a solo game
SoloCards == Range(TavernOrder) \cup Range(CastleOrder)

\* C34: in every state reachable from new_solo, calls made after Victory or
\* Defeat and calls that return an error included, the castle deck, the
\* current enemy, the tavern deck, the hand, the discard pile and played_cards
\* together hold the 52 cards of the game, each exactly once.
C34_CardConservation ==
    /\ Len(Piles(game)) = 52
    /\ Range(Piles(game)) = SoloCards

\* C34, what the engine does: no card is ever in two piles and none comes
\* from elsewhere; while an enemy is present the piles hold all 52 cards; every
\* call keeps the cards it found, but for the play_cards call that fails
\* after the cards have left the hand, which loses exactly the cards played.
C34_ConservedButLatePlay ==
    /\ Len(Piles(game)) = Cardinality(Range(Piles(game)))
    /\ Range(Piles(game)) \subseteq SoloCards
    /\ game.current_enemy # <<>> => Range(Piles(game)) = SoloCards
    /\ Range(Piles(game)) \subseteq Range(Piles(last.pre))
    /\ Range(Piles(last.pre)) \ Range(Piles(game)) =
          IF LatePlayError THEN Range(last.d.cards) ELSE {}

\* after Victory a valid play returns an error and its card is in no pile
C34_CardLost ==
    /\ LatePlayError
    /\ last.pre.game_state = "Victory"
    /\ Len(last.d.cards) = 1
    /\ Len(Piles(last.pre)) = 52
    /\ Len(Piles(game)) = 51
    /\ last.d.cards[1] \notin Range(Piles(game))

\* the current enemy has just been revealed
JustRevealed == (last.op = "new_solo" /\ last.pre = game) \/ last.d.is_defeated

\* C35: whenever a current enemy is present between operations, its
\* current_hp is greater than 0 and equals max_hp minus total_damage, so a
\* defeated enemy is never left as the current enemy; right after a reveal
\* total_damage is 0 and played_cards is empty.
C35_EnemyAlive ==
    game.current_enemy # <<>> =>
       LET e == game.current_enemy[1]
       IN /\ e.current_hp > 0
          /\ e.current_hp = e.max_hp - game.total_damage
          /\ ~is_defeated(e)
          /\ JustRevealed =>
                /\ game.total_damage = 0
                /\ game.played_cards = <<>>
                /\ e.current_hp = e.max_hp

\* an enemy wounded by earlier plays is defeated by more damage than it had
\* hit points left, and the next enemy stands unhurt with no cards played
C35_Witness ==
    /\ Attacked /\ last.d.is_defeated
    /\ last.pre.total_damage > 0
    /\ last.pre.played_cards # <<>>
    /\ last.d.total > EnemyBefore.max_hp
    /\ game.current_enemy # <<>>
    /\ game.total_damage = 0 /\ game.played_cards = <<>>
    /\ game.current_enemy[1].current_hp = game.current_enemy[1].max_hp

\* an enemy wounded and left standing
C35_WitnessWounded ==
    /\ Attacked /\ ~last.d.is_defeated
    /\ game.total_damage > last.pre.total_damage
    /\ last.pre.total_damage > 0
    /\ game.current_enemy[1].current_hp = game.current_enemy[1].max_hp - game.total_damage

(***************************************************************************)
(* The discard phase of the application.                                   *)
(***************************************************************************)
InDiscardPhase == app.state = "DiscardPhase"

\* C36: whenever the application is in the discard phase, after the Jester
\* power has been used in that phase too, the total value of the hand is at
\* least the required damage, so that the discard can be completed.
C36_DiscardPayable == InDiscardPhase => HandValue >= app.required_damage

\* C36, what the application does: the discard phase is entered only by a
\* counterattack whose damage the hand can pay, the requirement is the
\* enemy's attack less the shield, and every key of the phase but a
\* successful 'j' leaves the hand as it was; the Jester power replaces the
\* hand by the top cards of the tavern deck without looking at the
\* requirement, and only after it can the hand fall short.
C36_PayableUntilJester ==
    /\ InDiscardPhase /\ last.app_pre.state # "DiscardPhase" =>
          /\ Answered
          /\ app.required_damage = Damage /\ Damage > 0
          /\ HandValue >= app.required_damage
    /\ InDiscardPhase /\ last.app_pre.state = "DiscardPhase" =>
          /\ app.required_damage = last.app_pre.required_damage
          /\ last.op \in {"", "discard_to_survive", "use_jester"}
          /\ ~(last.op = "use_jester" /\ last.res.ok) =>
                game.player.hand = last.pre.player.hand
          /\ last.op = "use_jester" /\ last.res.ok =>
                game.player.hand = Take(last.pre.tavern_deck, 8)
    /\ InDiscardPhase =>
          /\ game.current_enemy # <<>>
          /\ app.required_damage =
                get_attack_after_shields(game.current_enemy[1], game.shield_value)
    /\ InDiscardPhase /\ HandValue < app.required_damage => game.jesters_used > 0

\* in the discard phase against a Queen the Jester power deals a full hand
\* of eight cards worth less than the damage to pay
C36_JesterLeavesTooLittle ==
    /\ InDiscardPhase /\ last.app_pre.state = "DiscardPhase"
    /\ last.op = "use_jester" /\ last.res.ok
    /\ game.game_state = "Playing"
    /\ Len(game.player.hand) = 8
    /\ HandValue < app.required_damage
    /\ SumSeq(Values(last.pre.player.hand)) >= app.required_damage

(***************************************************************************)
(* The Jester against a Spades enemy.                                      *)
(***************************************************************************)
JesterOnSpades == JesterPlayed /\ last.pre.current_enemy[1].card.suit = "Spades"

\* C37: after a Jester is played against a Spades enemy, shield_value is what
\* it would be had the enemy never blocked Spades: the sum of the combo
\* attack values of the earlier plays of this encounter whose combo held a
\* Spades card.
C37_ShieldAsIfNeverImmune ==
    JesterOnSpades => game.shield_value = last.unblocked_shield

\* C37, what the code does: the Jester adds the values of the Spades cards of
\* played_cards, not the attack values of their combos.  The first Jester
\* against the enemy leaves a shield of that sum, which is the shield of an
\* enemy never immune only if no Spades card was played with a card of
\* another suit, and less otherwise; a later Jester adds the sum again and
\* the shield can exceed it.
C37_ShieldOfSpadesCards ==
    JesterOnSpades =>
       /\ game.shield_value = last.pre.shield_value + SpadesPlayed
       /\ ~EnemyBefore.immunity_cancelled =>
             /\ last.pre.shield_value = 0
             /\ game.shield_value <= last.unblocked_shield
             /\ game.shield_value = last.unblocked_shield <=>
                   SpadesPlayed = last.unblocked_shield

\* the 4 of Spades played with the Ace of Diamonds against the Jack of Spades,
\* then the Jester: a shield of 4 where an enemy never immune has 5
C37_CompanionNotCounted ==
    /\ JesterOnSpades
    /\ ~EnemyBefore.immunity_cancelled
    /\ last.pre.played_cards = <<Card("Diamonds", "Ace"), Card("Spades", "Four")>>
    /\ game.shield_value = 4
    /\ last.unblocked_shield = 5

(***************************************************************************)
(* Progress of a game.                                                     *)
(***************************************************************************)
\* the hit points still to be taken before Victory: those of the current
\* enemy and of every enemy of the castle deck
HitPointsLeft(g) ==
    SumSeq([i \in 1..Len(g.castle_deck) |-> EnemyNew(g.castle_deck[i]).max_hp])
       + (IF g.current_enemy = <<>> THEN 0 ELSE g.current_enemy[1].current_hp)

\* C38: every successful play_cards call other than a Jester play deals at
\* least 1 damage: it strictly increases total_damage or defeats the current
\* enemy; the successful plays of an encounter never outnumber the damage
\* dealt in it, hence never max_hp; and each such play strictly lowers the
\* hit points left before Victory, which are 0 exactly at Victory, so that a
\* game of successful plays ends after finitely many calls.
C38_PlaysMakeProgress ==
    /\ Played /\ ~is_jester(last.d.cards[1]) =>
          /\ Attacked
          /\ last.d.dealt >= 1
          /\ last.d.is_defeated \/ game.total_damage > last.pre.total_damage
          /\ last.d.total = last.pre.total_damage + last.d.dealt
          /\ last.plays_before + 1 <= last.d.total
          /\ last.plays_before + 1 <= EnemyBefore.max_hp
          /\ HitPointsLeft(game) < HitPointsLeft(last.pre)
    /\ HitPointsLeft(game) <= HitPointsLeft(last.pre)
    /\ last.plays <= game.total_damage
    /\ HitPointsLeft(game) = 0 <=> game.current_enemy = <<>>
    /\ game.current_enemy = <<>> => game.game_state = "Victory"

\* the third successful play against an enemy leaves it standing, wounded
\* further
C38_Witness ==
    /\ Attacked /\ ~last.d.is_defeated
    /\ last.plays = 3
    /\ game.total_damage > last.pre.total_damage
    /\ HitPointsLeft(game) = HitPointsLeft(last.pre) - last.d.dealt

\* the last successful play takes the last hit points and the game is won
C38_WitnessVictory ==
    /\ Attacked /\ last.d.is_defeated
    /\ HitPointsLeft(last.pre) > 0
    /\ HitPointsLeft(game) = 0
    /\ game.game_state = "Victory"

\* the largest value of a u8
MaxU8 == U8(-1)

\* C39: in a game started by new_solo no u8 sum of the engine overflows: the
\* attack value of a combo, its doubling by Clubs, total_damage and
\* shield_value are the plain sums and stay at or below 255; and shield_value
\* never exceeds the total_damage of the encounter.
C39_NoOverflow ==
    /\ Attacked =>
          /\ ComboSum <= MaxU8
          /\ last.d.attack_value = ComboSum
          /\ 2 * ComboSum <= MaxU8
          /\ last.d.dealt = IF last.d.clubs_active THEN 2 * ComboSum ELSE ComboSum
          /\ last.pre.total_damage + last.d.dealt <= MaxU8
          /\ last.d.total = last.pre.total_damage + last.d.dealt
          /\ last.pre.shield_value + last.d.spades_power <= MaxU8
          /\ ~last.d.is_defeated =>
                /\ game.total_damage = last.d.total
                /\ game.shield_value = last.pre.shield_value + last.d.spades_power
    /\ game.total_damage <= MaxU8
    /\ game.shield_value <= game.total_damage

\* a Spades play raises the shield and the damage by the sum of the combo,
\* on top of a shield and damage already there
C39_Witness ==
    /\ Attacked /\ ~last.d.is_defeated
    /\ last.d.spades_power > 0
    /\ last.pre.shield_value > 0
    /\ game.shield_value = last.pre.shield_value + ComboSum
    /\ game.total_damage = last.pre.total_damage + ComboSum
    /\ game.shield_value <= game.total_damage

\* a Spades play doubled by Clubs raises the shield by the sum and the damage
\* by twice the sum
C39_WitnessDoubled ==
    /\ Attacked /\ ~last.d.is_defeated
    /\ last.d.clubs_active /\ last.d.spades_power > 0
    /\ game.shield_value = last.pre.shield_value + ComboSum
    /\ game.total_damage = last.pre.total_damage + 2 * ComboSum

\* a shield as large as the damage dealt
C39_WitnessEqual ==
    /\ game.current_enemy # <<>>
    /\ game.shield_value > 0
    /\ game.shield_value = game.total_damage

\* C40: in a solo game started by new_solo and driven through the engine
\* operations no pile ever holds a Jester card, so no play takes the Jester
\* branch of play_cards (jester_played_this_turn stays false, no shield is
\* added retroactively) and no enemy's immunity is ever cancelled
C40_NoJesterCard ==
    /\ \A c \in Range(Piles(game)) : ~is_jester(c)
    /\ \A i \in 1..Len(last.d.cards) : ~is_jester(last.d.cards[i])
    /\ ~game.jester_played_this_turn
    /\ last.d.retroactive_shield = 0
    /\ game.current_enemy # <<>> => ~game.current_enemy[1].immunity_cancelled
    /\ last.pre.current_enemy # <<>> => ~EnemyBefore.immunity_cancelled

\* both Jester powers are spent and a card of the enemy's suit is played: its
\* power stays blocked, the enemy is as immune as when it was revealed
C40_Witness ==
    /\ Attacked /\ ~last.d.is_defeated
    /\ game.jesters_used = game.jester_count
    /\ ComboHas(EnemyBefore.card.suit)
    /\ ImmuneBefore(EnemyBefore.card.suit)
    /\ game.current_enemy[1] = [EnemyBefore EXCEPT !.current_hp = last.d.hp_after]

\* the Jester power is used: the hand drawn holds no Jester card
C40_WitnessPower ==
    /\ last.op = "use_jester" /\ last.res.ok
    /\ game.player.hand # <<>>
    /\ \A i \in 1..Len(game.player.hand) : ~is_jester(game.player.hand[i])

============================================================================
